---- MODULE Spec2Model ----
(***************************************************************************)
(* Model of the mark-detection engine of analisador_gabarito_completo.py:  *)
(* the reference grid, the distance-vector mapper and the run of           *)
(* DetectorMarcacoes.detectar_marcacoes.                                   *)
(***************************************************************************)
EXTENDS Integers, Sequences, FiniteSets, TLC

VARIABLES
    pc,                 \* position of the call being modelled
    total_questoes,     \* argument total_questoes
    circles,            \* argument circles of map_circles_to_answers
    marcacoes,          \* the returned marcacoes_detectadas
    matches,            \* melhor_match at the end of each iteration of the outer loop
    contagem,           \* questoes_nesta_coluna of each column
    numeracao,          \* questao_numero of each (coluna, questao_na_coluna) the mapper accepts
    img,                \* what cv2.imread gave detectar_marcacoes
    regiao_idx,         \* the region the loop of detectar_marcacoes is at (1..5)
    candidatos,         \* what HoughCircles gave for each region processed so far
    forma,              \* shape of the buffer detectar_marcacoes holds (img, then enhanced)
    redimensionada,     \* cv2.resize was called in this run
    erro,               \* st.error was called by detectar_marcacoes
    saida,              \* how the call of detectar_marcacoes ended
    detector,           \* the attributes of the DetectorMarcacoes instance
    media,              \* mean_intensity of a call of validate_black_circle
    valido,             \* what that call returned
    dados,              \* dados[cargo_selecionado] of gabarito_oficial.json: nome and provas
    prova_selecionada,  \* the prova chosen in the sidebar of main
    gabarito_oficial,   \* main's gabarito_oficial, the key of the chosen prova
    comparacao,         \* what comparar_com_gabarito returned
    questoes_ordenadas, \* main's questoes_ordenadas
    resultado_conab,    \* what calcular_nota_conab returned
    gabarito_nota,      \* the local gabarito_oficial of calcular_nota_conab
    arquivo,            \* resultados_candidatos.json
    salvamentos,        \* number of records built so far (the source of their id)
    classificacoes,     \* what gerar_classificacao_por_modalidade returned
    estatisticas,       \* how the general statistics of the ranking page ended
    sessoes             \* the locals of the concurrent calls of salvar_resultado_candidato

vars == <<pc, total_questoes, circles, marcacoes, matches, contagem, numeracao,
          img, forma, redimensionada, regiao_idx, candidatos, erro, saida,
          detector, media, valido,
          dados, prova_selecionada, gabarito_oficial, comparacao, questoes_ordenadas,
          resultado_conab, gabarito_nota,
          arquivo, salvamentos, classificacoes, estatisticas, sessoes>>

\* the variables of the analysis page after the detection
analiseVars == <<dados, prova_selecionada, gabarito_oficial, comparacao,
                 questoes_ordenadas, resultado_conab, gabarito_nota>>

\* the variables of the store of results and of the ranking
armazenamentoVars == <<arquivo, salvamentos, classificacoes, estatisticas, sessoes>>

appVars == <<analiseVars, armazenamentoVars>>

\* the variables of a run of detectar_marcacoes
runVars == <<img, forma, redimensionada, regiao_idx, candidatos, erro, saida>>

---------------------------------------------------------------------------
(* Bounds of the model.                                                    *)

\* total_questoes is drawn from 1..MaxTotal in the mapper's specification
MaxTotal == 6
\* longest list of circles handed to the mapper
MaxCircles == 2
\* total_questoes is drawn from 1..MaxGridTotal in the grid's specification
MaxGridTotal == 130
\* most candidates HoughCircles gives in one run, all regions together
MaxCandidatos == 2

---------------------------------------------------------------------------
(* Layout configuration, DetectorMarcacoes.__init__.                       *)

\* mutant: column 2 starts 43 px right of column 1
regioes_questoes_sobrepostas ==
    << [x |-> 842,  y |-> 580, w |-> 218, h |-> 860],
       [x |-> 885,  y |-> 580, w |-> 215, h |-> 860],
       [x |-> 1400, y |-> 580, w |-> 220, h |-> 860],
       [x |-> 1683, y |-> 580, w |-> 217, h |-> 860],
       [x |-> 1960, y |-> 580, w |-> 210, h |-> 860] >>

\* mutant: column 2 is 250 px wide and ends 26 px from the points of column 3
regioes_questoes_coluna_larga ==
    << [x |-> 842,  y |-> 580, w |-> 218, h |-> 860],
       [x |-> 1125, y |-> 580, w |-> 250, h |-> 860],
       [x |-> 1400, y |-> 580, w |-> 220, h |-> 860],
       [x |-> 1683, y |-> 580, w |-> 217, h |-> 860],
       [x |-> 1960, y |-> 580, w |-> 210, h |-> 860] >>

regioes_questoes ==
    << [x |-> 842,  y |-> 580, w |-> 218, h |-> 860],
       [x |-> 1125, y |-> 580, w |-> 215, h |-> 860],
       [x |-> 1400, y |-> 580, w |-> 220, h |-> 860],
       [x |-> 1683, y |-> 580, w |-> 217, h |-> 860],
       [x |-> 1960, y |-> 580, w |-> 210, h |-> 860] >>

\* 'largura_esperada' and 'altura_esperada'
largura_esperada == 2338
altura_esperada == 1653

espacamento_questoes == 44
espacamento_alternativas == 43
offset_primeira_questao == 10

\* the letters, in the order of the list ['A', 'B', 'C', 'D', 'E']
Alternativas == <<"A", "B", "C", "D", "E">>

\* number of columns: the five entries of regioes_questoes
NumColunas == Len(regioes_questoes)
\* range(25): the rows of the reference table in each column
LinhasPorColuna == 25
\* the tolerance of the `distancia <= 30` test
Tolerancia == 30
\* total_questoes: int = 60, the default of detectar_marcacoes
total_padrao == 60
\* total_questoes = 80, what main passes when no cargo is selected
total_sem_cargo == 80
\* 'total_questoes': 60 of self.config
config_total_questoes == 60
\* self.min_radius, self.max_radius, self.param1, self.param2, self.min_dist
min_radius == 8
max_radius == 14
param1 == 50
param2 == 20
min_dist == 20
\* self.darkness_threshold
darkness_threshold == 120
\* self.circularity_threshold = 0.6, in hundredths
circularity_threshold == 60

Colunas == 0..(NumColunas - 1)
Linhas == 0..(LinhasPorColuna - 1)

---------------------------------------------------------------------------
(* _calcular_pontos_referencia: the entries of pontos['alternativas'], in  *)
(* the insertion order of the dict (column, row, alternative), which is    *)
(* the order .items() yields them in the mapper.  Columns and rows are     *)
(* 0-based as in the code.                                                 *)

\* mutant: the two spacings exchanged
PontoAlternativa_espacamentos_trocados(col_idx, q, alt_idx) ==
    LET regiao == regioes_questoes[col_idx + 1]
        x_base == regiao.x
        y_base == regiao.y + offset_primeira_questao
        y_questao == y_base + (q * espacamento_alternativas)
        x_alternativa == x_base + (alt_idx * espacamento_questoes)
    IN  [ponto |-> <<x_alternativa, y_questao>>,
         coluna |-> col_idx,
         questao_na_coluna |-> q,
         alternativa |-> Alternativas[alt_idx + 1]]

PontoAlternativa(col_idx, q, alt_idx) ==
    LET regiao == regioes_questoes[col_idx + 1]
        x_base == regiao.x
        y_base == regiao.y + offset_primeira_questao
        y_questao == y_base + (q * espacamento_questoes)
        x_alternativa == x_base + (alt_idx * espacamento_alternativas)
    IN  [ponto |-> <<x_alternativa, y_questao>>,
         coluna |-> col_idx,
         questao_na_coluna |-> q,
         alternativa |-> Alternativas[alt_idx + 1]]

calcular_pontos_referencia ==
    [i \in 1..(NumColunas * LinhasPorColuna * Len(Alternativas)) |->
        LET k == i - 1
            porColuna == LinhasPorColuna * Len(Alternativas)
        IN  PontoAlternativa(k \div porColuna,
                             (k % porColuna) \div Len(Alternativas),
                             k % Len(Alternativas))]

\* self.pontos_referencia, built once in __init__
pontos_referencia == calcular_pontos_referencia

\* self.config
config ==
    [largura_esperada |-> largura_esperada,
     altura_esperada |-> altura_esperada,
     regioes_questoes |-> regioes_questoes,
     espacamento_questoes |-> espacamento_questoes,
     espacamento_alternativas |-> espacamento_alternativas,
     offset_primeira_questao |-> offset_primeira_questao,
     total_questoes |-> config_total_questoes]

\* the instance as __init__ leaves it
DetectorConstruido ==
    [config |-> config,
     min_radius |-> min_radius,
     max_radius |-> max_radius,
     param1 |-> param1,
     param2 |-> param2,
     min_dist |-> min_dist,
     darkness_threshold |-> darkness_threshold,
     circularity_threshold |-> circularity_threshold,
     pontos_referencia |-> pontos_referencia]

---------------------------------------------------------------------------
(* _calcular_distancia_euclidiana.  The code returns the float             *)
(* sqrt(dx^2 + dy^2) and only compares it (d < menor_distancia,            *)
(* d <= 30).  On integer coordinates of this size the correctly rounded    *)
(* square root is strictly increasing in dx^2 + dy^2 and sqrt(900) is      *)
(* exactly 30.0, so the model carries the squared distance and compares    *)
(* it with the squared tolerance.                                          *)

calcular_distancia_euclidiana(p1, p2) ==
    (p1[1] - p2[1]) * (p1[1] - p2[1]) + (p1[2] - p2[2]) * (p1[2] - p2[2])

\* mutant: the tolerance test written with <
DentroDaTolerancia_estrita(distancia) == distancia < Tolerancia * Tolerancia

DentroDaTolerancia(distancia) == distancia <= Tolerancia * Tolerancia

---------------------------------------------------------------------------
(* map_circles_to_answers.                                                 *)

Min2(a, b) == IF a < b THEN a ELSE b

questoes_por_coluna(total) == total \div 5
resto(total) == total % 5

\* mutant: the extra question given to the columns up to resto, included
questoes_nesta_coluna_inclusive(coluna, total) ==
    questoes_por_coluna(total) + (IF coluna <= resto(total) THEN 1 ELSE 0)

\* questoes_nesta_coluna = questoes_por_coluna + (1 if coluna < resto else 0)
questoes_nesta_coluna(coluna, total) ==
    questoes_por_coluna(total) + (IF coluna < resto(total) THEN 1 ELSE 0)

\* mutant: the number without its + 1 (0-based)
questao_numero_base_zero(coluna, questao_na_coluna, total) ==
    (coluna * questoes_por_coluna(total)) + questao_na_coluna
        + (IF coluna > 0 THEN Min2(coluna, resto(total)) ELSE 0)

\* mutant: the adjustment is resto for every column after the first
questao_numero_resto_inteiro(coluna, questao_na_coluna, total) ==
    (coluna * questoes_por_coluna(total)) + questao_na_coluna + 1
        + (IF coluna > 0 THEN resto(total) ELSE 0)

\* mutant: no adjustment for the extra questions of the earlier columns
questao_numero_sem_ajuste(coluna, questao_na_coluna, total) ==
    (coluna * questoes_por_coluna(total)) + questao_na_coluna + 1

\* questao_numero, with the adjustment of the columns after the first
questao_numero(coluna, questao_na_coluna, total) ==
    (coluna * questoes_por_coluna(total)) + questao_na_coluna + 1
        + (IF coluna > 0 THEN Min2(coluna, resto(total)) ELSE 0)

\* melhor_match = None
None == [questao |-> 0, alternativa |-> "", distancia |-> -1]

\* menor_distancia = float('inf')
Infinito == -1

\* mutant: a point at the same distance as the best so far replaces it
MenorQue_ou_igual(distancia, menor_distancia) ==
    menor_distancia = Infinito \/ distancia <= menor_distancia

\* distancia < menor_distancia
MenorQue(distancia, menor_distancia) ==
    menor_distancia = Infinito \/ distancia < menor_distancia

\* mutant: the limit of the column is not tested
ScanPonto_sem_limite(st, ref_data, ponto_circulo, total) ==
    LET distancia == calcular_distancia_euclidiana(ponto_circulo, ref_data.ponto)
        numero == questao_numero(ref_data.coluna, ref_data.questao_na_coluna, total)
    IN  IF /\ MenorQue(distancia, st.menor_distancia)
           /\ DentroDaTolerancia(distancia)
           /\ numero <= total
        THEN [menor_distancia |-> distancia,
              melhor_match |-> [questao |-> numero,
                                alternativa |-> ref_data.alternativa,
                                distancia |-> distancia]]
        ELSE st

\* mutant: the nearest entry of the whole table is kept first and its
\* validity tested afterwards
ScanPonto_mais_proximo(st, ref_data, ponto_circulo, total) ==
    LET distancia == calcular_distancia_euclidiana(ponto_circulo, ref_data.ponto)
        coluna == ref_data.coluna
        questao_na_coluna == ref_data.questao_na_coluna
        numero == questao_numero(coluna, questao_na_coluna, total)
    IN  IF /\ MenorQue(distancia, st.menor_distancia)
           /\ DentroDaTolerancia(distancia)
        THEN [menor_distancia |-> distancia,
              melhor_match |->
                  IF /\ questao_na_coluna < questoes_nesta_coluna(coluna, total)
                     /\ numero <= total
                  THEN [questao |-> numero,
                        alternativa |-> ref_data.alternativa,
                        distancia |-> distancia]
                  ELSE None]
        ELSE st

\* one iteration of the loop over pontos_referencia['alternativas'].items()
ScanPonto(st, ref_data, ponto_circulo, total) ==
    LET distancia == calcular_distancia_euclidiana(ponto_circulo, ref_data.ponto)
        coluna == ref_data.coluna
        questao_na_coluna == ref_data.questao_na_coluna
        numero == questao_numero(coluna, questao_na_coluna, total)
    IN  IF /\ MenorQue(distancia, st.menor_distancia)
           /\ DentroDaTolerancia(distancia)
           /\ questao_na_coluna < questoes_nesta_coluna(coluna, total)
           /\ numero <= total
        THEN [menor_distancia |-> distancia,
              melhor_match |-> [questao |-> numero,
                                alternativa |-> ref_data.alternativa,
                                distancia |-> distancia]]
        ELSE st

\* the state of the inner loop before its first iteration
SemMatch == [menor_distancia |-> Infinito, melhor_match |-> None]

\* the loop over the entries lo..hi of the table, in the table's order: the
\* first half, then the second half from the state the first half ends in
\* (the test on that state has it computed before the second half starts)
RECURSIVE ScanPontos(_, _, _, _, _)
ScanPontos(st, lo, hi, ponto_circulo, total) ==
    IF lo > hi THEN st
    ELSE IF lo = hi THEN ScanPonto(st, pontos_referencia[lo], ponto_circulo, total)
    ELSE LET mid == (lo + hi) \div 2
             esquerda == ScanPontos(st, lo, mid, ponto_circulo, total)
         IN  IF esquerda.menor_distancia = Infinito
             THEN ScanPontos(SemMatch, mid + 1, hi, ponto_circulo, total)
             ELSE ScanPontos(esquerda, mid + 1, hi, ponto_circulo, total)

\* the match the inner loop ends with for one circle
melhor_match(circle, total) ==
    ScanPontos(SemMatch, 1, Len(pontos_referencia),
               <<circle[1], circle[2]>>, total).melhor_match

\* mutant: a circle whose question already has an entry removes that entry
MapCircle_apaga(acc, circle, total) ==
    LET m == melhor_match(circle, total)
        detectadas == acc.marcacoes_detectadas
    IN  [marcacoes_detectadas |->
            IF m = None THEN detectadas
            ELSE IF m.questao \in DOMAIN detectadas
            THEN [q \in (DOMAIN detectadas) \ {m.questao} |-> detectadas[q]]
            ELSE [q \in (DOMAIN detectadas) \cup {m.questao} |->
                     IF q = m.questao THEN m.alternativa ELSE detectadas[q]],
         matches |-> Append(acc.matches, m)]

\* mutant: a later circle overwrites the entry of its question
MapCircle_ultimo_vence(acc, circle, total) ==
    LET m == melhor_match(circle, total)
        detectadas == acc.marcacoes_detectadas
    IN  [marcacoes_detectadas |->
            IF m # None
            THEN [q \in (DOMAIN detectadas) \cup {m.questao} |->
                     IF q = m.questao THEN m.alternativa ELSE detectadas[q]]
            ELSE detectadas,
         matches |-> Append(acc.matches, m)]

\* the body of the outer loop: one circle against the map built so far;
\* matches keeps the melhor_match each iteration ended with
MapCircle(acc, circle, total) ==
    LET m == melhor_match(circle, total)
        detectadas == acc.marcacoes_detectadas
    IN  [marcacoes_detectadas |->
            IF m # None /\ m.questao \notin DOMAIN detectadas
            THEN [q \in (DOMAIN detectadas) \cup {m.questao} |->
                     IF q = m.questao THEN m.alternativa ELSE detectadas[q]]
            ELSE detectadas,
         matches |-> Append(acc.matches, m)]

\* marcacoes_detectadas = {}
EmptyMap == [q \in {} |-> ""]

\* the outer loop over the first n circles of the list
RECURSIVE MapPrefix(_, _, _)
MapPrefix(cs, n, total) ==
    IF n = 0 THEN [marcacoes_detectadas |-> EmptyMap, matches |-> <<>>]
    ELSE MapCircle(MapPrefix(cs, n - 1, total), cs[n], total)

map_circles_to_answers(cs, total) == MapPrefix(cs, Len(cs), total)

---------------------------------------------------------------------------
(* Inputs of the mapper's specification.                                   *)

\* a circle at (dx, dy) from the reference point of (col, q, alt_idx)
Deslocado(col, q, alt_idx, dx, dy) ==
    LET p == PontoAlternativa(col, q, alt_idx).ponto
    IN  <<p[1] + dx, p[2] + dy, min_radius>>

\* circles around the first rows of column 0: on the tolerance boundary right
\* of alternative E of row 0, one pixel beyond it, between rows 0 and 1
\* (nearer row 1), 30 px under row 0, on a reference point of row 1
Pool ==
    { Deslocado(0, 0, 4, 30, 0),
      Deslocado(0, 0, 4, 31, 0),
      Deslocado(0, 0, 0, 0, 23),
      Deslocado(0, 0, 2, 0, 30),
      Deslocado(0, 1, 3, 0, 0) }

RECURSIVE Listas(_)
Listas(n) ==
    IF n = 0 THEN {<<>>}
    ELSE Listas(n - 1) \cup
         {Append(l, c) : l \in {k \in Listas(n - 1) : Len(k) = n - 1}, c \in Pool}

\* what the sheet layout says of the distribution (section 4.1 of the design)
ContagemEsperada(c, total) == (total \div 5) + (IF c < total % 5 THEN 1 ELSE 0)

RECURSIVE AntesDaColuna(_, _)
AntesDaColuna(c, total) ==
    IF c = 0 THEN 0 ELSE AntesDaColuna(c - 1, total) + ContagemEsperada(c - 1, total)

\* the question printed at row q of column c, counting column by column
NumeroEsperado(c, q, total) == AntesDaColuna(c, total) + q + 1

ParValido(c, q, total) == q < ContagemEsperada(c, total)

\* the totals whose every question gets a circle on each of its alternatives
TotaisCompletos ==
    (1..MaxTotal) \cup {total_padrao, total_sem_cargo, NumColunas * LinhasPorColuna}

SobreReferencia(total) ==
    { <<Deslocado(c, q, a, 0, 0)>> :
        c \in {k \in Colunas : ContagemEsperada(k, total) > 0},
        q \in {k \in Linhas : k < (total \div 5) + 1},
        a \in 0..(Len(Alternativas) - 1) }

\* circles on the first and on the last pixel of the first row of each
\* region, the pixels of the region nearest to the neighbouring columns
NasBordas ==
    { <<regioes_questoes[c + 1].x + dx, regioes_questoes[c + 1].y + offset_primeira_questao,
        min_radius>> :
        c \in Colunas, dx \in {0} } \cup
    { <<regioes_questoes[c + 1].x + regioes_questoes[c + 1].w - 1,
        regioes_questoes[c + 1].y + offset_primeira_questao, min_radius>> :
        c \in Colunas }

\* circles vertically midway between two consecutive rows (22 px from each)
NoMeio ==
    { Deslocado(0, 0, 2, 0, espacamento_questoes \div 2),
      Deslocado(1, 3, 0, 0, espacamento_questoes \div 2),
      Deslocado(4, 10, 4, 0, espacamento_questoes \div 2) }

semGrade == <<>>

\* no run of detectar_marcacoes under way
SemSaida == [tipo |-> "nenhuma", valor |-> EmptyMap]

\* no buffer yet
SemForma == <<0, 0>>

\* Python's None where an answer is looked up
PyNone == "None"

\* no analysis under way
SemDados == [nome |-> <<>>, provas |-> <<>>]
SemComparacao == [acertos |-> 0, erros |-> 0, nao_respondidas |-> 0, anuladas |-> 0]

SemAnalise ==
    /\ dados = SemDados
    /\ prova_selecionada = ""
    /\ gabarito_oficial = EmptyMap
    /\ comparacao = SemComparacao
    /\ questoes_ordenadas = EmptyMap
    /\ resultado_conab = <<>>
    /\ gabarito_nota = EmptyMap

\* no store in use
SemArquivo == [existe |-> FALSE, registros |-> <<>>]

SemArmazenamento ==
    /\ arquivo = SemArquivo
    /\ salvamentos = 0
    /\ classificacoes = <<>>
    /\ estatisticas = ""
    /\ sessoes = <<>>

SemAplicacao == SemAnalise /\ SemArmazenamento

\* no call of validate_black_circle under way
SemValidacao ==
    /\ media = 0
    /\ valido = FALSE

SemCorrida ==
    /\ img = "nenhuma"
    /\ forma = SemForma
    /\ redimensionada = FALSE
    /\ regiao_idx = 0
    /\ candidatos = <<>>
    /\ erro = FALSE
    /\ saida = SemSaida

InitMapper ==
    /\ pc = "map_call"
    /\ total_questoes \in TotaisCompletos
    /\ \/ /\ total_questoes <= MaxTotal
          /\ circles \in Listas(MaxCircles)
       \/ circles \in { l \in SobreReferencia(total_questoes) :
                          \E c \in Colunas, q \in Linhas, a \in 0..4 :
                              /\ ParValido(c, q, total_questoes)
                              /\ l = <<Deslocado(c, q, a, 0, 0)>> }
       \/ circles \in { <<c>> : c \in NasBordas \cup NoMeio }
    /\ marcacoes = EmptyMap
    /\ matches = <<>>
    /\ contagem = semGrade
    /\ numeracao = semGrade
    /\ SemCorrida
    /\ detector = DetectorConstruido
    /\ SemValidacao
    /\ SemAplicacao

\* a call of map_circles_to_answers(circles, total_questoes)
MapCirclesToAnswers ==
    /\ pc = "map_call"
    /\ UNCHANGED <<detector, media, valido>>
    /\ UNCHANGED appVars
    /\ LET r == map_circles_to_answers(circles, total_questoes)
       IN  /\ marcacoes' = r.marcacoes_detectadas
           /\ matches' = r.matches
    /\ pc' = "map_done"
    /\ UNCHANGED <<total_questoes, circles, contagem, numeracao>>
    /\ UNCHANGED runVars

NextMapper == MapCirclesToAnswers

SpecMapper == InitMapper /\ [][NextMapper]_vars

---------------------------------------------------------------------------
(* The distribution of the questions over the columns, as the mapper       *)
(* computes it for every entry of the table.                               *)

InitGrid ==
    /\ pc = "grid_call"
    /\ total_questoes \in 1..MaxGridTotal
    /\ circles = <<>>
    /\ marcacoes = EmptyMap
    /\ matches = <<>>
    /\ contagem = semGrade
    /\ numeracao = semGrade
    /\ SemCorrida
    /\ detector = DetectorConstruido
    /\ SemValidacao
    /\ SemAplicacao

DistribuirQuestoes ==
    /\ pc = "grid_call"
    /\ UNCHANGED <<detector, media, valido>>
    /\ UNCHANGED appVars
    /\ contagem' = [c \in Colunas |-> questoes_nesta_coluna(c, total_questoes)]
    /\ numeracao' =
          [par \in { cq \in Colunas \X Linhas :
                       /\ cq[2] < questoes_nesta_coluna(cq[1], total_questoes)
                       /\ questao_numero(cq[1], cq[2], total_questoes) <= total_questoes }
             |-> questao_numero(par[1], par[2], total_questoes)]
    /\ pc' = "grid_done"
    /\ UNCHANGED <<total_questoes, circles, marcacoes, matches>>
    /\ UNCHANGED runVars

NextGrid == DistribuirQuestoes

SpecGrid == InitGrid /\ [][NextGrid]_vars

---------------------------------------------------------------------------
(* detect_circles_in_region and validate_black_circle.  The image is seen  *)
(* through what the OpenCV calls give: HoughCircles gives None or a list   *)
(* of candidates (cx, cy, r) relative to the region, and cv2.mean gives    *)
(* the mean intensity inside each candidate's disk (the field media).      *)

\* what cv2.HoughCircles did: returned None, returned an array of circles,
\* or raised (cv2.error)
HoughNone == [none |-> TRUE, lista |-> <<>>, excecao |-> ""]
HoughLista(l) == [none |-> FALSE, lista |-> l, excecao |-> ""]
HoughLevanta == [none |-> FALSE, lista |-> <<>>, excecao |-> "cv2.error"]

\* a call that returned valor / a call that raised
Retorna(valor) == [ok |-> TRUE, valor |-> valor, excecao |-> ""]
Levanta(excecao) == [ok |-> FALSE, valor |-> <<>>, excecao |-> excecao]

\* mutant: a mean equal to the threshold is accepted
validate_black_circle_inclusive(mean_intensity) == mean_intensity <= darkness_threshold

\* return mean_intensity < self.darkness_threshold
validate_black_circle(mean_intensity) == mean_intensity < darkness_threshold

\* mutant: the validated circles are put in front of the later ones' list
RECURSIVE CirculosValidados_invertido(_, _, _)
CirculosValidados_invertido(lista, x, y) ==
    IF lista = <<>> THEN <<>>
    ELSE LET c == Head(lista)
             abs_x == x + c.cx
             abs_y == y + c.cy
             resto_da_lista == CirculosValidados_invertido(Tail(lista), x, y)
         IN  IF validate_black_circle(c.media)
             THEN resto_da_lista \o <<(<<abs_x, abs_y, c.r>>)>>
             ELSE resto_da_lista

\* the loop over the circles HoughCircles gave
RECURSIVE CirculosValidados(_, _, _)
CirculosValidados(lista, x, y) ==
    IF lista = <<>> THEN <<>>
    ELSE LET c == Head(lista)
             abs_x == x + c.cx
             abs_y == y + c.cy
             resto_da_lista == CirculosValidados(Tail(lista), x, y)
         IN  IF validate_black_circle(c.media)
             THEN <<(<<abs_x, abs_y, c.r>>)>> \o resto_da_lista
             ELSE resto_da_lista

\* roi = image[y:y+h, x:x+w]: the pixels of the image the region holds
DentroDaRegiao(ponto, regiao) ==
    /\ regiao.x <= ponto[1] /\ ponto[1] < regiao.x + regiao.w
    /\ regiao.y <= ponto[2] /\ ponto[2] < regiao.y + regiao.h

\* mutant: circles is used without the `is not None` test
detect_circles_in_region_sem_teste(hough, x, y) ==
    IF hough.excecao # "" THEN Levanta(hough.excecao)
    ELSE IF hough.none THEN Levanta("TypeError")
    ELSE Retorna(CirculosValidados(hough.lista, x, y))

\* an exception of the OpenCV call is not caught here: it leaves the method
detect_circles_in_region(hough, x, y) ==
    IF hough.excecao # "" THEN Levanta(hough.excecao)
    ELSE IF hough.none THEN Retorna(<<>>)
    ELSE Retorna(CirculosValidados(hough.lista, x, y))

---------------------------------------------------------------------------
(* validate_black_circle alone: one call on a disk of mean intensity       *)
(* media, by a detector whose circularity_threshold may have been set to   *)
(* another value.                                                          *)

\* cv2.mean over the disk of an 8-bit buffer, in whole grey levels
MediasPossiveis == 0..255

\* values of circularity_threshold, in hundredths
CircularidadesPossiveis == {0, circularity_threshold, 100}

InitValida ==
    /\ pc = "validate_call"
    /\ total_questoes = total_padrao
    /\ circles = <<>>
    /\ marcacoes = EmptyMap
    /\ matches = <<>>
    /\ contagem = semGrade
    /\ numeracao = semGrade
    /\ SemCorrida
    /\ detector \in { [DetectorConstruido EXCEPT !.circularity_threshold = c] :
                          c \in CircularidadesPossiveis }
    /\ media \in MediasPossiveis
    /\ valido = FALSE
    /\ SemAplicacao

ValidateBlackCircle ==
    /\ pc = "validate_call"
    /\ valido' = validate_black_circle(media)
    /\ pc' = "validate_done"
    /\ UNCHANGED <<total_questoes, circles, marcacoes, matches, contagem, numeracao,
                   detector, media>>
    /\ UNCHANGED runVars
    /\ UNCHANGED appVars

NextValida == ValidateBlackCircle

SpecValida == InitValida /\ [][NextValida]_vars

---------------------------------------------------------------------------
(* detectar_marcacoes.                                                     *)

\* the heights and widths of the decoded images of the model: around the
\* expected value, the other dimension of the sheet (a sheet turned by a
\* quarter), fractions and multiples of the expected value, one pixel
AlturasLidas ==
    { altura_esperada - 2, altura_esperada - 1, altura_esperada,
      altura_esperada + 1, altura_esperada + 2, largura_esperada,
      altura_esperada \div 4, altura_esperada \div 2,
      2 * altura_esperada, 3 * altura_esperada, 1 }

LargurasLidas ==
    { largura_esperada - 2, largura_esperada - 1, largura_esperada,
      largura_esperada + 1, largura_esperada + 2, altura_esperada,
      largura_esperada \div 4, largura_esperada \div 2,
      2 * largura_esperada, 3 * largura_esperada, 1 }

\* img.shape of a decoded colour image: (height, width, 3)
FormasLidas == { <<a, l, 3>> : a \in AlturasLidas, l \in LargurasLidas }

\* the image of the runs that go on through the regions: a scan at half the
\* expected resolution
FormasDaCorrida == { <<altura_esperada \div 2, largura_esperada \div 2, 3>> }

\* mutant: the image is cut to the expected size instead of resized
cv2_resize_recorte(shape, dsize) ==
    <<Min2(shape[1], dsize[2]), Min2(shape[2], dsize[1]), shape[3]>>

\* cv2.resize(img, dsize): dsize is (width, height), the shape of the result
\* is (height, width, channels)
cv2_resize(shape, dsize) == <<dsize[2], dsize[1], shape[3]>>

\* preprocess_image: of a colour image cvtColor gives one channel, and
\* GaussianBlur and CLAHE keep the shape; enhanced has shape (height, width)
preprocess_image(shape) == <<shape[1], shape[2]>>

\* the candidates of the model: on alternative B of row 0 with a mean just
\* under the threshold and with a mean at the threshold, and on alternative
\* C of row 1 with a mean just under the threshold
CandidatosPossiveis ==
    { [cx |-> espacamento_alternativas, cy |-> offset_primeira_questao,
       r |-> min_radius, media |-> darkness_threshold - 1],
      [cx |-> espacamento_alternativas, cy |-> offset_primeira_questao,
       r |-> min_radius, media |-> darkness_threshold],
      [cx |-> 2 * espacamento_alternativas,
       cy |-> offset_primeira_questao + espacamento_questoes,
       r |-> min_radius, media |-> darkness_threshold - 1] }

RECURSIVE ListasDeCandidatos(_)
ListasDeCandidatos(n) ==
    IF n = 0 THEN {<<>>}
    ELSE ListasDeCandidatos(n - 1) \cup
         {Append(l, c) : l \in {k \in ListasDeCandidatos(n - 1) : Len(k) = n - 1},
                         c \in CandidatosPossiveis}

RECURSIVE NumCandidatos(_)
NumCandidatos(hist) ==
    IF hist = <<>> THEN 0
    ELSE Len(Head(hist).lista) + NumCandidatos(Tail(hist))

\* what HoughCircles may do for the next region: give None, give a list
\* that is not empty, or raise
SaidasDeHough(hist) ==
    {HoughNone, HoughLevanta} \cup
    {HoughLista(l) :
        l \in ListasDeCandidatos(MaxCandidatos - NumCandidatos(hist)) \ {<<>>}}

\* the totals of the runs: one question per column, and the default
TotaisDaCorrida == {NumColunas, total_padrao}

Init ==
    /\ pc = "imread"
    /\ total_questoes \in TotaisDaCorrida
    /\ circles = <<>>
    /\ marcacoes = EmptyMap
    /\ matches = <<>>
    /\ contagem = semGrade
    /\ numeracao = semGrade
    /\ SemCorrida
    /\ detector = DetectorConstruido
    /\ SemValidacao
    /\ SemAplicacao

\* mutant: the except branch returns what the circles gathered so far map to
Except_parcial ==
    /\ erro' = TRUE
    /\ saida' = [tipo |-> "return",
                 valor |-> map_circles_to_answers(circles, total_questoes).marcacoes_detectadas]
    /\ pc' = "done"

\* the except branch: st.error(...); return {}
Except ==
    /\ erro' = TRUE
    /\ saida' = [tipo |-> "return", valor |-> EmptyMap]
    /\ pc' = "done"

\* cv2.imread gives None: raise ValueError, caught by the except branch
ImreadNone ==
    /\ pc = "imread"
    /\ UNCHANGED <<detector, media, valido>>
    /\ UNCHANGED appVars
    /\ img' = "None"
    /\ Except
    /\ UNCHANGED <<total_questoes, circles, marcacoes, matches, contagem, numeracao,
                   forma, redimensionada, regiao_idx, candidatos>>

\* cv2.imread(caminho_imagem, cv2.IMREAD_COLOR) gives an image: three
\* channels, of whatever height and width the file has
Imread(formas) ==
    /\ pc = "imread"
    /\ UNCHANGED <<detector, media, valido>>
    /\ UNCHANGED appVars
    /\ img' = "imagem"
    /\ forma' \in formas
    /\ pc' = "redimensiona"
    /\ UNCHANGED <<total_questoes, circles, marcacoes, matches, contagem, numeracao,
                   redimensionada, regiao_idx, candidatos, erro, saida>>

\* altura, largura = img.shape[:2]; the resize when one of them differs from
\* the expected one; gray, enhanced = self.preprocess_image(img); then the
\* loop over the regions starts on enhanced
RedimensionaEPreprocessa ==
    /\ pc = "redimensiona"
    /\ UNCHANGED <<detector, media, valido>>
    /\ UNCHANGED appVars
    /\ LET altura == forma[1]
           largura == forma[2]
           difere == largura # largura_esperada \/ altura # altura_esperada
           redim == IF difere
                    THEN cv2_resize(forma, <<largura_esperada, altura_esperada>>)
                    ELSE forma
       IN  /\ forma' = preprocess_image(redim)
           /\ redimensionada' = difere
    /\ regiao_idx' = 1
    /\ pc' = "regioes"
    /\ UNCHANGED <<total_questoes, circles, marcacoes, matches, contagem, numeracao,
                   img, candidatos, erro, saida>>

\* one iteration of the loop over self.config['regioes_questoes']
DetectarRegiao ==
    /\ pc = "regioes"
    /\ UNCHANGED <<detector, media, valido>>
    /\ UNCHANGED appVars
    /\ regiao_idx <= NumColunas
    /\ \E hough \in SaidasDeHough(candidatos) :
          LET regiao == regioes_questoes[regiao_idx]
              circles_in_region == detect_circles_in_region(hough, regiao.x, regiao.y)
          IN  /\ candidatos' = Append(candidatos, hough)
              /\ IF circles_in_region.ok
                 THEN /\ circles' = circles \o circles_in_region.valor
                      /\ regiao_idx' = regiao_idx + 1
                      /\ UNCHANGED <<pc, erro, saida>>
                 ELSE /\ Except
                      /\ UNCHANGED <<circles, regiao_idx>>
    /\ UNCHANGED <<total_questoes, marcacoes, matches, contagem, numeracao, img,
                   forma, redimensionada>>

\* mutant: the total of the call is stored in self.config
MapearERetornar_grava_total ==
    /\ pc = "regioes"
    /\ detector' = [detector EXCEPT !.config.total_questoes = total_questoes]
    /\ UNCHANGED <<media, valido>>
    /\ UNCHANGED appVars
    /\ regiao_idx = NumColunas + 1
    /\ LET r == map_circles_to_answers(circles, total_questoes)
       IN  /\ marcacoes' = r.marcacoes_detectadas
           /\ matches' = r.matches
           /\ saida' = [tipo |-> "return", valor |-> r.marcacoes_detectadas]
    /\ pc' = "done"
    /\ UNCHANGED <<total_questoes, circles, contagem, numeracao,
                   img, forma, redimensionada, regiao_idx, candidatos, erro>>


\* marcacoes_detectadas = self.map_circles_to_answers(all_circles, total_questoes)
\* return marcacoes_detectadas
MapearERetornar ==
    /\ pc = "regioes"
    /\ UNCHANGED <<detector, media, valido>>
    /\ UNCHANGED appVars
    /\ regiao_idx = NumColunas + 1
    /\ LET r == map_circles_to_answers(circles, total_questoes)
       IN  /\ marcacoes' = r.marcacoes_detectadas
           /\ matches' = r.matches
           /\ saida' = [tipo |-> "return", valor |-> r.marcacoes_detectadas]
    /\ pc' = "done"
    /\ UNCHANGED <<total_questoes, circles, contagem, numeracao,
                   img, forma, redimensionada, regiao_idx, candidatos, erro>>

Next ==
    \/ ImreadNone
    \/ Imread(FormasDaCorrida)
    \/ RedimensionaEPreprocessa
    \/ DetectarRegiao
    \/ MapearERetornar

Spec == Init /\ [][Next]_vars

\* the first steps of detectar_marcacoes alone, on every decoded shape of
\* the model, up to the buffer the loop over the regions starts on
InitNormaliza ==
    /\ pc = "imread"
    /\ total_questoes = total_padrao
    /\ circles = <<>>
    /\ marcacoes = EmptyMap
    /\ matches = <<>>
    /\ contagem = semGrade
    /\ numeracao = semGrade
    /\ SemCorrida
    /\ detector = DetectorConstruido
    /\ SemValidacao
    /\ SemAplicacao

NextNormaliza ==
    \/ ImreadNone
    \/ Imread(FormasLidas)
    \/ RedimensionaEPreprocessa

SpecNormaliza == InitNormaliza /\ [][NextNormaliza]_vars

---------------------------------------------------------------------------
(* What the sheet layout says of a circle, stated without the mapper's     *)
(* loop: the reference points that are valid for total and lie within the  *)
(* tolerance of the circle.                                                *)

Letras == {Alternativas[i] : i \in DOMAIN Alternativas}

Dist2(circle, j) ==
    LET p == pontos_referencia[j].ponto
        dx == circle[1] - p[1]
        dy == circle[2] - p[2]
    IN  dx * dx + dy * dy

Perto(circle) == {j \in DOMAIN pontos_referencia : Dist2(circle, j) <= 900}

Valido(j, total) ==
    ParValido(pontos_referencia[j].coluna, pontos_referencia[j].questao_na_coluna, total)

ValidosPerto(circle, total) == {j \in Perto(circle) : Valido(j, total)}

NumeroDoPonto(j, total) ==
    NumeroEsperado(pontos_referencia[j].coluna, pontos_referencia[j].questao_na_coluna, total)

MinDe(S) == CHOOSE m \in S : \A n \in S : m <= n

Feito == pc = "map_done"

---------------------------------------------------------------------------
\* C1: the map returned by map_circles_to_answers has only keys in
\* 1..total_questoes and only values in {A, B, C, D, E}; a question has at
\* most one entry (the map is a function of the question number) and there
\* are no more entries than circles.
C1_ChavesEValores ==
    Feito =>
        /\ DOMAIN marcacoes \subseteq 1..total_questoes
        /\ \A k \in DOMAIN marcacoes : marcacoes[k] \in Letras
        /\ Cardinality(DOMAIN marcacoes) <= Len(circles)

C1_Witness ==
    /\ Feito
    /\ Len(circles) = 2
    /\ Cardinality(DOMAIN marcacoes) = 2

\* C2: when several circles of the list resolve to the same question, the
\* entry of that question is the alternative of the first of them in the
\* list, whatever the distances.
C2_PrimeiroVence ==
    Feito =>
        \A k \in DOMAIN marcacoes :
            LET idx == {i \in DOMAIN matches :
                           matches[i] # None /\ matches[i].questao = k}
            IN  /\ idx # {}
                /\ marcacoes[k] = matches[MinDe(idx)].alternativa

\* a later circle of the same question is closer to its reference point and
\* carries another alternative, and the first circle's alternative is kept
C2_Witness ==
    /\ Feito
    /\ \E i, j \in DOMAIN matches :
          /\ i < j
          /\ matches[i] # None /\ matches[j] # None
          /\ matches[i].questao = matches[j].questao
          /\ matches[i].alternativa # matches[j].alternativa
          /\ matches[j].distancia < matches[i].distancia
          /\ marcacoes[matches[i].questao] = matches[i].alternativa

\* C3: the tolerance is inclusive.  A circle whose nearest valid reference
\* point is at squared distance exactly 900 is matched to such a point; a
\* circle with no valid reference point at squared distance <= 900 is not
\* matched, and only matched circles give entries.
C3_ToleranciaInclusiva ==
    Feito =>
        /\ \A i \in DOMAIN circles :
              LET vp == ValidosPerto(circles[i], total_questoes)
              IN  /\ (vp # {} /\ \A j \in vp : Dist2(circles[i], j) = 900) =>
                        /\ matches[i] # None
                        /\ matches[i].distancia = 900
                        /\ \E j \in vp :
                              /\ matches[i].questao = NumeroDoPonto(j, total_questoes)
                              /\ matches[i].alternativa = pontos_referencia[j].alternativa
                  /\ vp = {} => matches[i] = None
        /\ \A k \in DOMAIN marcacoes :
              \E i \in DOMAIN matches : matches[i] # None /\ matches[i].questao = k

\* the circle 30 px right of alternative E of question 1 is matched, the one
\* 31 px right of it is not
C3_Witness ==
    /\ Feito
    /\ circles = <<Deslocado(0, 0, 4, 31, 0), Deslocado(0, 0, 4, 30, 0)>>
    /\ matches[1] = None
    /\ matches[2] = [questao |-> 1, alternativa |-> "E", distancia |-> 900]
    /\ marcacoes = (1 :> "E")

\* C4: a single circle centered on the reference coordinate of alternative a
\* of question k (k in 1..total_questoes) gives the map {k: a}.
C4_CirculoSobreReferencia ==
    (Feito /\ Len(circles) = 1) =>
        \A j \in DOMAIN pontos_referencia :
            ( /\ pontos_referencia[j].ponto = <<circles[1][1], circles[1][2]>>
              /\ Valido(j, total_questoes) )
            => marcacoes = (NumeroDoPonto(j, total_questoes) :>
                                pontos_referencia[j].alternativa)

\* question 80 of an 80-question sheet: column 4, row 15
C4_Witness ==
    /\ Feito
    /\ total_questoes = total_sem_cargo
    /\ circles = <<Deslocado(4, 15, 4, 0, 0)>>
    /\ marcacoes = (80 :> "E")

\* C7: every entry k -> a comes from a circle within the tolerance of the
\* reference point of alternative a at the (column, row) that is valid for
\* k; a circle that has only reference points beyond their column's
\* question count within the tolerance gives no match.
C7_EntradaJustificada ==
    Feito =>
        /\ \A k \in DOMAIN marcacoes :
              \E i \in DOMAIN circles :
                  \E j \in ValidosPerto(circles[i], total_questoes) :
                      /\ NumeroDoPonto(j, total_questoes) = k
                      /\ pontos_referencia[j].alternativa = marcacoes[k]
        /\ \A i \in DOMAIN circles :
              ( /\ Perto(circles[i]) # {}
                /\ \A j \in Perto(circles[i]) : ~Valido(j, total_questoes) )
              => matches[i] = None

\* a circle on the reference point of row 1 of column 0, which has one
\* question only; the number computed for that row, 2, is <= total_questoes
C7_Witness ==
    /\ Feito
    /\ total_questoes = 5
    /\ circles = <<Deslocado(0, 1, 3, 0, 0)>>
    /\ questao_numero(0, 1, total_questoes) <= total_questoes
    /\ marcacoes = EmptyMap

\* C8 as stated: the mapper looks at the nearest reference point of the
\* whole table only, so a circle whose nearest point is not valid gives no
\* match.
C8_SoOMaisProximo ==
    Feito =>
        \A i \in DOMAIN circles :
            (\E j \in Perto(circles[i]) :
                /\ ~Valido(j, total_questoes)
                /\ \A k \in Perto(circles[i]) :
                      k # j => Dist2(circles[i], j) < Dist2(circles[i], k))
            => matches[i] = None

\* C8 amended: the mapper keeps the nearest of the reference points that are
\* valid for total_questoes and within the tolerance; a nearer point that is
\* not valid does not block it, and the circle gives no match only when no
\* valid point is within the tolerance.
C8_MaisProximoValido ==
    Feito =>
        \A i \in DOMAIN circles :
            LET vp == ValidosPerto(circles[i], total_questoes)
            IN  IF vp = {}
                THEN matches[i] = None
                ELSE /\ matches[i] # None
                     /\ \A j \in vp : matches[i].distancia <= Dist2(circles[i], j)
                     /\ \E j \in vp :
                           /\ matches[i].distancia = Dist2(circles[i], j)
                           /\ matches[i].questao = NumeroDoPonto(j, total_questoes)
                           /\ matches[i].alternativa = pontos_referencia[j].alternativa

\* between rows 0 and 1 of column 0, 21 px from row 1 (not valid for five
\* questions) and 23 px from row 0: matched to question 1
C8_Witness ==
    /\ Feito
    /\ total_questoes = 5
    /\ circles = <<Deslocado(0, 0, 0, 0, 23)>>
    /\ Dist2(circles[1], 6) = 21 * 21
    /\ ~Valido(6, total_questoes)
    /\ marcacoes = (1 :> "A")

---------------------------------------------------------------------------
\* C5: each column gets total div 5 questions, plus one for the columns of
\* index < total mod 5, and the five counts sum to total_questoes.
C5_ContagemPorColuna ==
    pc = "grid_done" =>
        /\ \A c \in Colunas :
              /\ contagem[c] = (total_questoes \div 5)
                                  + (IF c < total_questoes % 5 THEN 1 ELSE 0)
              /\ contagem[c] \in {total_questoes \div 5, (total_questoes \div 5) + 1}
        /\ contagem[0] + contagem[1] + contagem[2] + contagem[3] + contagem[4]
              = total_questoes

\* 7 questions: two columns of 2 and three of 1
C5_Witness ==
    /\ pc = "grid_done"
    /\ total_questoes = 7
    /\ contagem = [c \in Colunas |-> IF c < 2 THEN 2 ELSE 1]

\* C6: for total_questoes from 1 to 125 the question number is a bijection
\* from the valid (column, row) pairs onto 1..total_questoes, increasing
\* column by column and row by row.
C6_NumeracaoBijetora ==
    (pc = "grid_done" /\ total_questoes <= NumColunas * LinhasPorColuna) =>
        /\ DOMAIN numeracao =
              {cq \in Colunas \X Linhas : cq[2] < contagem[cq[1]]}
        /\ {numeracao[cq] : cq \in DOMAIN numeracao} = 1..total_questoes
        /\ \A a, b \in DOMAIN numeracao :
              (a[1] < b[1] \/ (a[1] = b[1] /\ a[2] < b[2]))
                  => numeracao[a] < numeracao[b]

\* 62 questions: the first row of column 2 is question 27
C6_Witness ==
    /\ pc = "grid_done"
    /\ total_questoes = 62
    /\ numeracao[<<2, 0>>] = 27
    /\ numeracao[<<4, 11>>] = 62

---------------------------------------------------------------------------
\* a region in which HoughCircles found nothing or no candidate passed the
\* darkness test
RegiaoSemMarca(hough) ==
    /\ hough.excecao = ""
    /\ hough.none \/ \A i \in DOMAIN hough.lista : ~(hough.lista[i].media < 120)

\* no call of the run raised
SemExcecao == img = "imagem" /\ \A i \in DOMAIN candidatos : candidatos[i].excecao = ""

\* C9: when the image cannot be decoded, detectar_marcacoes does not end
\* like a run on a blank sheet: it does not return the empty map.
C9_FalhaDistinguivel ==
    (pc = "done" /\ img = "None") =>
        saida # [tipo |-> "return", valor |-> EmptyMap]

\* C10: a run in which some region (or every region) has no detected circle
\* or no candidate that passes the validation, and in which no call raises,
\* goes through the five regions and returns the map of the validated
\* circles, empty when no region has a mark, and st.error is not called.
C10_SemDeteccaoSemErro ==
    ( /\ pc = "done"
      /\ SemExcecao
      /\ \E i \in DOMAIN candidatos : RegiaoSemMarca(candidatos[i]) )
    => /\ erro = FALSE
       /\ Len(candidatos) = NumColunas
       /\ saida = [tipo |-> "return", valor |-> marcacoes]
       /\ DOMAIN marcacoes \subseteq 1..total_questoes
       /\ Cardinality(DOMAIN marcacoes) <= Len(circles)
       /\ (\A i \in DOMAIN candidatos : RegiaoSemMarca(candidatos[i]))
             => saida.valor = EmptyMap

\* one region with no circle, one whose only candidate is rejected, one with
\* a validated mark: a partial map and no error
C10_Witness ==
    /\ pc = "done"
    /\ erro = FALSE
    /\ \E i \in DOMAIN candidatos : candidatos[i].none
    /\ \E i \in DOMAIN candidatos :
          ~candidatos[i].none /\ RegiaoSemMarca(candidatos[i])
    /\ \E i \in DOMAIN candidatos : ~RegiaoSemMarca(candidatos[i])
    /\ saida.valor # EmptyMap

---------------------------------------------------------------------------
\* the call for region k raised
FalhaNaRegiao(k) ==
    /\ k \in DOMAIN candidatos
    /\ candidatos[k].excecao # ""

\* C11: a failure while one region is processed is absorbed: the run goes on
\* through the five regions, st.error is not called and the marks validated
\* in the other regions are in the returned map.
C11_FalhaAbsorvida ==
    (pc = "done" /\ \E k \in 1..NumColunas : FalhaNaRegiao(k)) =>
        /\ erro = FALSE
        /\ Len(candidatos) = NumColunas
        /\ circles # <<>> => saida.valor # EmptyMap

\* C12: a run that fails at any step (the decoding, or the call for a
\* region) returns the empty map: the circles validated in the regions
\* processed before the failure give no entry of the result, and the mapper
\* is not run.
C12_SemMapaParcial ==
    (pc = "done" /\ (img = "None" \/ \E k \in 1..NumColunas : FalhaNaRegiao(k))) =>
        /\ saida = [tipo |-> "return", valor |-> EmptyMap]
        /\ marcacoes = EmptyMap
        /\ matches = <<>>

\* the call for a later region raises after an earlier region gave a
\* validated circle on alternative B of question 1
C12_Witness ==
    /\ pc = "done"
    /\ \E k \in 2..NumColunas : FalhaNaRegiao(k)
    /\ circles # <<>>
    /\ melhor_match(circles[1], total_questoes) # None
    /\ saida.valor = EmptyMap

---------------------------------------------------------------------------
\* the decoded image has the expected width and height
TamanhoEsperado(shape) == shape[1] = 1653 /\ shape[2] = 2338

\* C13: whatever the width and height of the decoded image, the buffer the
\* loop over the regions starts on is 1653 rows by 2338 columns, one channel;
\* cv2.resize is called when and only when the width or the height of the
\* decoded image differs from the expected one.
C13_BufferNaResolucao ==
    [][ pc = "redimensiona" =>
           /\ pc' = "regioes"
           /\ forma' = <<1653, 2338>>
           /\ redimensionada' = ~TamanhoEsperado(forma) ]_vars

\* an image of half the size has been resized
C13_Witness ==
    /\ pc = "regioes"
    /\ regiao_idx = 1
    /\ redimensionada
    /\ forma = <<1653, 2338>>

---------------------------------------------------------------------------
\* C14: validate_black_circle accepts exactly when the mean intensity is
\* below 120, a mean of 120 being rejected, whatever the value of
\* circularity_threshold of the detector.
C14_LimiarDeEscuridao ==
    pc = "validate_done" =>
        /\ valido <=> media < 120
        /\ media = 120 => ~valido

\* a mean of 120 rejected by a detector whose circularity_threshold is not
\* the constructed one
C14_Witness ==
    /\ pc = "validate_done"
    /\ media = 120
    /\ detector.circularity_threshold # 60
    /\ ~valido

---------------------------------------------------------------------------
\* C15: for every total_questoes from 1 to 125 the reference points of every
\* valid (column, row) lie inside the rectangle of the region of their
\* column.
C15_ReferenciaDentroDaRegiao ==
    (pc = "grid_done" /\ total_questoes <= 125) =>
        \A cq \in DOMAIN numeracao :
            \A a \in 0..4 :
                DentroDaRegiao(PontoAlternativa(cq[1], cq[2], a).ponto,
                               regioes_questoes[cq[1] + 1])

---------------------------------------------------------------------------
\* the validated circles region k gave in this run
CirculosDaRegiao(k) ==
    detect_circles_in_region(candidatos[k], regioes_questoes[k].x,
                             regioes_questoes[k].y).valor

\* the regions that gave a validated circle
RegioesComCirculos == {k \in DOMAIN candidatos : CirculosDaRegiao(k) # <<>>}

\* the orders in which the regions of S can be put one after the other
Ordens(S) ==
    {p \in [1..Cardinality(S) -> S] : \A i, j \in 1..Cardinality(S) : p[i] = p[j] => i = j}

\* the lists of the regions concatenated in the order p
RECURSIVE Concatenados(_)
Concatenados(p) ==
    IF p = <<>> THEN <<>> ELSE CirculosDaRegiao(Head(p)) \o Concatenados(Tail(p))

\* C16: in a run that ends without error and whose circles all lie inside
\* the rectangle of the region that gave them, the lists of the regions
\* concatenated in any order (the order inside each list kept) map to the
\* map the run returned.
C16_OrdemDasRegioes ==
    ( /\ pc = "done"
      /\ erro = FALSE
      /\ \A k \in DOMAIN candidatos :
            \A i \in DOMAIN CirculosDaRegiao(k) :
                DentroDaRegiao(CirculosDaRegiao(k)[i], regioes_questoes[k]) )
    => \A p \in Ordens(RegioesComCirculos) :
          map_circles_to_answers(Concatenados(p), total_questoes).marcacoes_detectadas
              = saida.valor

\* two regions gave a validated circle each, and the map has their two
\* questions
C16_Witness ==
    /\ pc = "done"
    /\ erro = FALSE
    /\ Cardinality(RegioesComCirculos) = 2
    /\ Cardinality(DOMAIN saida.valor) = 2

---------------------------------------------------------------------------
\* C17: no step of a run of detectar_marcacoes (the decoding, the detection
\* and validation in a region, the mapping, the except branch) changes the
\* configuration, the parameters or the table of reference points of the
\* detector.
C17_DetectorInalterado == [][detector' = detector]_vars

\* the end of a run that mapped a circle, and the end of a run that failed
\* after a region gave one: the detector is as __init__ left it
C17_Witness ==
    /\ pc = "done"
    /\ circles # <<>>
    /\ detector.config = config
    /\ detector.pontos_referencia = calcular_pontos_referencia
    /\ erro \/ marcacoes # EmptyMap

---------------------------------------------------------------------------
\* the index of a letter in A..E, from 0
IndiceDaLetra(letra) == CHOOSE a \in 0..4 : Alternativas[a + 1] = letra

\* C18: whatever total_questoes is, the table of the detector has 625
\* entries, one for each (column 0..4, row 0..24, alternative A..E), the
\* entry of (c, q, a) at x = region.x + index(a) * 43 and
\* y = region.y + 10 + q * 44, and the 625 coordinates are pairwise distinct.
C18_TabelaDeReferencia ==
    LET tabela == detector.pontos_referencia
    IN  /\ Len(tabela) = 625
        /\ { <<tabela[j].coluna, tabela[j].questao_na_coluna, tabela[j].alternativa>> :
                j \in DOMAIN tabela }
              = (0..4) \X (0..24) \X {"A", "B", "C", "D", "E"}
        /\ \A j \in DOMAIN tabela :
              LET regiao == regioes_questoes[tabela[j].coluna + 1]
              IN  tabela[j].ponto =
                      << regiao.x + IndiceDaLetra(tabela[j].alternativa) * 43,
                         regiao.y + 10 + tabela[j].questao_na_coluna * 44 >>
        /\ Cardinality({tabela[j].ponto : j \in DOMAIN tabela}) = 625

\* the distribution of 125 questions has been computed; the last entry of
\* the table is alternative E of row 24 of column 4
C18_Witness ==
    /\ pc = "grid_done"
    /\ total_questoes = 125
    /\ detector.pontos_referencia[625] =
          [ponto |-> <<2132, 1646>>, coluna |-> 4, questao_na_coluna |-> 24,
           alternativa |-> "E"]

---------------------------------------------------------------------------
\* the candidates of a region whose mean is under 120, in the order
\* HoughCircles gave them, at their place in the whole image
Escuros(k) ==
    LET sel == SelectSeq(candidatos[k].lista, LAMBDA c : c.media < 120)
    IN  [i \in 1..Len(sel) |->
            <<regioes_questoes[k].x + sel[i].cx, regioes_questoes[k].y + sel[i].cy,
              sel[i].r>>]

RECURSIVE EscurosAte(_)
EscurosAte(k) == IF k = 0 THEN <<>> ELSE EscurosAte(k - 1) \o Escuros(k)

\* C19: the mapper runs only once the five regions have been processed;
\* the list it is given holds the candidates that passed the darkness test
\* and only them, region after region from column 1 to column 5, in the
\* order HoughCircles gave them inside each region.
C19_OrdemDaCorrida ==
    /\ (pc = "done" /\ erro = FALSE) =>
          /\ Len(candidatos) = NumColunas
          /\ regiao_idx = NumColunas + 1
          /\ Len(matches) = Len(circles)
    /\ (matches # <<>> \/ marcacoes # EmptyMap) => (pc = "done" /\ erro = FALSE)
    /\ pc \in {"regioes", "done"} =>
          circles = EscurosAte(Len(candidatos))

\* a region after the first gave two dark candidates: they are handed to
\* the mapper in the order they were given
C19_Witness ==
    /\ pc = "done"
    /\ erro = FALSE
    /\ \E k \in 2..NumColunas :
          /\ Len(candidatos[k].lista) = 2
          /\ circles = Escuros(k)
          /\ Len(circles) = 2
          /\ circles[1] # circles[2]
    /\ Len(matches) = 2

---------------------------------------------------------------------------
\* the maps of the prefixes of length 0..n of cs: entry i + 1 is what the
\* mapper gives for the first i circles
RECURSIVE MapasDosPrefixos(_, _, _)
MapasDosPrefixos(cs, n, total) ==
    IF n = 0 THEN <<EmptyMap>>
    ELSE LET anteriores == MapasDosPrefixos(cs, n - 1, total)
             ultimo == anteriores[Len(anteriores)]
             seguinte == MapCircle([marcacoes_detectadas |-> ultimo, matches |-> <<>>],
                                   cs[n], total).marcacoes_detectadas
         IN  Append(anteriores, seguinte)

SubMapa(f, g) ==
    /\ DOMAIN f \subseteq DOMAIN g
    /\ \A k \in DOMAIN f : f[k] = g[k]

\* C20: the map of a prefix extended by one circle keeps every entry of the
\* map of the prefix and has at most one entry more; the map of every
\* prefix is a sub-map of the map of the whole list, which has no more
\* entries than the list has circles.
C20_PrefixosCrescentes ==
    Feito =>
        LET mapas == MapasDosPrefixos(circles, Len(circles), total_questoes)
        IN  /\ mapas[Len(circles) + 1] = marcacoes
            /\ \A n \in 1..Len(circles) :
                  /\ SubMapa(mapas[n], mapas[n + 1])
                  /\ Cardinality(DOMAIN mapas[n + 1]) <= Cardinality(DOMAIN mapas[n]) + 1
                  /\ Cardinality(DOMAIN mapas[n + 1]) <= n
            /\ \A n \in 1..(Len(circles) + 1) : SubMapa(mapas[n], marcacoes)
            /\ Cardinality(DOMAIN marcacoes) <= Len(circles)

\* the second circle resolves to the question of the first with another
\* letter: the map of the prefix of length 1 is the map of the whole list
C20_Witness ==
    /\ Feito
    /\ circles = <<Deslocado(0, 0, 2, 0, 30), Deslocado(0, 0, 4, 30, 0)>>
    /\ MapPrefix(circles, 1, total_questoes).marcacoes_detectadas = (1 :> "C")
    /\ marcacoes = (1 :> "C")

---------------------------------------------------------------------------
\* question k is one of the questions of column c
QuestaoDaColuna(k, c, total) ==
    /\ AntesDaColuna(c, total) < k
    /\ k <= AntesDaColuna(c, total) + ContagemEsperada(c, total)

\* the squared distance from ponto to the nearest pixel of the rectangle
DistanciaAoRetangulo2(ponto, regiao) ==
    LET dx == IF ponto[1] < regiao.x THEN regiao.x - ponto[1]
              ELSE IF ponto[1] > regiao.x + regiao.w - 1
                   THEN ponto[1] - (regiao.x + regiao.w - 1)
                   ELSE 0
        dy == IF ponto[2] < regiao.y THEN regiao.y - ponto[2]
              ELSE IF ponto[2] > regiao.y + regiao.h - 1
                   THEN ponto[2] - (regiao.y + regiao.h - 1)
                   ELSE 0
    IN  dx * dx + dy * dy

\* C21: a circle whose centre is inside the rectangle of column c has no
\* reference point of another column within 30 px and, when it is matched,
\* is matched to a question of column c; every reference point of another
\* column is more than 30 px from every pixel of the rectangle of column c.
C21_SemMatchEntreColunas ==
    Feito =>
        /\ \A i \in DOMAIN circles :
              \A c \in Colunas :
                  DentroDaRegiao(circles[i], regioes_questoes[c + 1]) =>
                      /\ \A j \in Perto(circles[i]) : pontos_referencia[j].coluna = c
                      /\ matches[i] # None =>
                            QuestaoDaColuna(matches[i].questao, c, total_questoes)
        /\ (Len(circles) = 1 /\ circles[1] \in NasBordas) =>
              \A c \in Colunas :
                  \A j \in DOMAIN pontos_referencia :
                      pontos_referencia[j].coluna # c =>
                          DistanciaAoRetangulo2(pontos_referencia[j].ponto,
                                                regioes_questoes[c + 1]) > 900

\* the circle on the last pixel of the first row of column 2 (x = 1339),
\* 61 px from alternative A of column 3: no match
C21_Witness ==
    /\ Feito
    /\ circles = << <<1339, 590, min_radius>> >>
    /\ Dist2(circles[1], 2 * 125 + 1) = 61 * 61
    /\ matches[1] = None

\* the reference points at the least distance among the valid ones within
\* the tolerance
MaisProximos(circle, total) ==
    LET vp == ValidosPerto(circle, total)
    IN  {j \in vp : \A k \in vp : Dist2(circle, j) <= Dist2(circle, k)}

\* C22: a circle at the same least distance from several valid reference
\* points within the tolerance is matched to the first of them in the order
\* of the table (column, row, alternative), which is the one of the lowest
\* question number.
C22_EmpatePrimeiroDaTabela ==
    Feito =>
        \A i \in DOMAIN circles :
            LET mp == MaisProximos(circles[i], total_questoes)
            IN  mp # {} =>
                  LET primeiro == MinDe(mp)
                  IN  /\ matches[i].questao = NumeroDoPonto(primeiro, total_questoes)
                      /\ matches[i].alternativa = pontos_referencia[primeiro].alternativa
                      /\ \A j \in mp : NumeroDoPonto(primeiro, total_questoes)
                                            <= NumeroDoPonto(j, total_questoes)

\* 22 px under alternative C of question 1 and 22 px over alternative C of
\* question 2, both valid: question 1
C22_Witness ==
    /\ Feito
    /\ total_questoes = total_padrao
    /\ circles = <<Deslocado(0, 0, 2, 0, 22)>>
    /\ Cardinality(MaisProximos(circles[1], total_questoes)) = 2
    /\ marcacoes = (1 :> "C")

---------------------------------------------------------------------------
(* The analysis page of main once a cargo is chosen: the choice of the     *)
(* prova, the detected marks, comparar_com_gabarito and                    *)
(* calcular_nota_conab.                                                    *)

\* the highest question number of the structures of calcular_nota_conab
MaxQuestao == 100

\* str(questao) and int(k) on the decimal numerals of the keys
str(q) == ToString(q)
int(k) == CHOOSE n \in 0..MaxQuestao : ToString(n) = k

\* the names of the cargos of the model, as sequences of words
NomesDeCargo ==
    { <<"ANALISTA", "ADMINISTRATIVO">>,
      <<"ANALISTA", "DE", "TECNOLOGIA", "DA", "INFORMAÇÃO">>,
      <<"ASSISTENTE", "ADMINISTRATIVO">>,
      <<"ASSISTENTE", "DE", "TECNOLOGIA", "DA", "INFORMAÇÃO">> }

\* a key of n questions: the letters in turn from desloc, every question
\* whose number is a multiple of ciclo annulled
GabaritoDaProva(n, desloc, ciclo) ==
    [k \in {str(q) : q \in 1..n} |->
        IF int(k) % ciclo = 0 THEN "Anulada"
        ELSE Alternativas[((int(k) + desloc) % 5) + 1]]

\* 80 questions for the analista cargos, 100 for the others
QuestoesDoCargo(nome) == IF nome[1] = "ANALISTA" THEN total_sem_cargo ELSE MaxQuestao

\* 'provas' of a cargo, in the order of the file: one prova, or two provas
\* with different keys
ProvasPossiveis(nome) ==
    LET p1 == [prova |-> "1", gabarito |-> GabaritoDaProva(QuestoesDoCargo(nome), 0, 7)]
        p2 == [prova |-> "2", gabarito |-> GabaritoDaProva(QuestoesDoCargo(nome), 1, 9)]
    IN  {<<p1>>, <<p1, p2>>}

DadosPossiveis ==
    UNION { { [nome |-> n, provas |-> ps] : ps \in ProvasPossiveis(n) } : n \in NomesDeCargo }

\* the non-empty maps detectar_marcacoes returns in the model: every
\* question, every second or every third one answered, with letters that
\* agree with the keys of the model on some questions and not on others
RespostasPossiveis(total) ==
    { [q \in {n \in 1..total : n % passo = 0} |-> Alternativas[((q * q + s) % 5) + 1]] :
        passo \in {1, 2, 3}, s \in 0..2 }

\* dados[cargo_selecionado]['provas'][prova]
GabaritoDe(d, prova) ==
    (CHOOSE p \in {d.provas[i] : i \in DOMAIN d.provas} : p.prova = prova).gabarito

InitAnalise ==
    /\ pc = "selecao"
    /\ total_questoes = total_sem_cargo
    /\ circles = <<>>
    /\ marcacoes = EmptyMap
    /\ matches = <<>>
    /\ contagem = semGrade
    /\ numeracao = semGrade
    /\ SemCorrida
    /\ detector = DetectorConstruido
    /\ SemValidacao
    /\ dados \in DadosPossiveis
    /\ prova_selecionada = ""
    /\ gabarito_oficial = EmptyMap
    /\ comparacao = SemComparacao
    /\ questoes_ordenadas = EmptyMap
    /\ resultado_conab = <<>>
    /\ gabarito_nota = EmptyMap
    /\ SemArmazenamento

\* the selectbox of the prova; gabarito_oficial and total_questoes follow
SelecionarProva ==
    /\ pc = "selecao"
    /\ \E i \in DOMAIN dados.provas :
          /\ prova_selecionada' = dados.provas[i].prova
          /\ gabarito_oficial' = GabaritoDe(dados, dados.provas[i].prova)
          /\ total_questoes' = Cardinality(DOMAIN GabaritoDe(dados, dados.provas[i].prova))
    /\ pc' = "deteccao"
    /\ UNCHANGED <<circles, marcacoes, matches, contagem, numeracao, detector, media, valido>>
    /\ UNCHANGED runVars
    /\ UNCHANGED <<dados, comparacao, questoes_ordenadas, resultado_conab, gabarito_nota>>
    /\ UNCHANGED armazenamentoVars

\* marcacoes = detector.detectar_marcacoes(imagem_path, total_questoes), a
\* map that is not empty
MarcacoesDetectadas ==
    /\ pc = "deteccao"
    /\ marcacoes' \in RespostasPossiveis(total_questoes)
    /\ pc' = "comparacao"
    /\ UNCHANGED <<total_questoes, circles, matches, contagem, numeracao,
                   detector, media, valido>>
    /\ UNCHANGED runVars
    /\ UNCHANGED analiseVars
    /\ UNCHANGED armazenamentoVars

\* gabarito_int = {int(k): v for k, v in gabarito_oficial.items()}
gabarito_int(gabarito) ==
    [q \in {int(k) : k \in DOMAIN gabarito} |-> gabarito[str(q)]]

\* marcacoes.get(questao_num)
RespostaDoCandidato(respostas, questao_num) ==
    IF questao_num \in DOMAIN respostas THEN respostas[questao_num] ELSE PyNone

\* mutant: the answer of the candidate is looked at before the annulment
ClasseDaQuestao_resposta_primeiro(resposta_oficial, resposta_candidato) ==
    IF resposta_candidato = PyNone THEN "nao_respondidas"
    ELSE IF resposta_candidato = resposta_oficial THEN "acertos"
    ELSE IF resposta_oficial = "Anulada" THEN "anuladas"
    ELSE "erros"

\* the if / elif chain of the loop: the counter the question adds to
ClasseDaQuestao(resposta_oficial, resposta_candidato) ==
    IF resposta_oficial = "Anulada" THEN "anuladas"
    ELSE IF resposta_candidato = PyNone THEN "nao_respondidas"
    ELSE IF resposta_candidato = resposta_oficial THEN "acertos"
    ELSE "erros"

\* the four counters after the loop over gabarito_int.keys()
comparar_com_gabarito(respostas, gabarito) ==
    LET gi == gabarito_int(gabarito)
        classe == [q \in DOMAIN gi |->
                      ClasseDaQuestao(gi[q], RespostaDoCandidato(respostas, q))]
        conta(c) == Cardinality({q \in DOMAIN gi : classe[q] = c})
    IN  [acertos |-> conta("acertos"),
         erros |-> conta("erros"),
         nao_respondidas |-> conta("nao_respondidas"),
         anuladas |-> conta("anuladas")]

\* acertos, erros, nao_respondidas, anuladas =
\*     comparar_com_gabarito(marcacoes, gabarito_oficial)
CompararComGabarito ==
    /\ pc = "comparacao"
    /\ comparacao' = comparar_com_gabarito(marcacoes, gabarito_oficial)
    /\ pc' = "nota"
    /\ UNCHANGED <<total_questoes, circles, marcacoes, matches, contagem, numeracao,
                   detector, media, valido>>
    /\ UNCHANGED runVars
    /\ UNCHANGED <<dados, prova_selecionada, gabarito_oficial, questoes_ordenadas,
                   resultado_conab, gabarito_nota>>
    /\ UNCHANGED armazenamentoVars

---------------------------------------------------------------------------
(* calcular_nota_conab.                                                    *)

\* list(range(a, b))
range(a, b) == a..(b - 1)

Materia(nome, questoes, peso_da_materia) ==
    [materia |-> nome, questoes |-> questoes, peso |-> peso_da_materia]

\* estruturas_prova, the subjects of each part in the order of the dict
estruturas_prova ==
    [superior_geral |->
        [conhecimentos_basicos |->
            << Materia("lingua_portuguesa", range(1, 6), 2),
               Materia("matematica_raciocinio", range(6, 10), 1),
               Materia("informatica", range(10, 14), 1),
               Materia("orcamento_publico", range(14, 18), 1),
               Materia("gestao_projetos", range(18, 22), 1),
               Materia("conhecimentos_transversais", range(22, 26), 1),
               Materia("politicas_publicas", range(26, 31), 2) >>,
         conhecimentos_especificos |-> << Materia("especificos", range(31, 81), 2) >>,
         notas_minimas |-> [basicos |-> 16, especificos |-> 50]],
     superior_ti |->
        [conhecimentos_basicos |->
            << Materia("lingua_portuguesa", range(1, 6), 2),
               Materia("matematica_raciocinio", range(6, 11), 1),
               Materia("orcamento_publico", range(11, 16), 1),
               Materia("gestao_projetos", range(16, 21), 1),
               Materia("conhecimentos_transversais", range(21, 26), 1),
               Materia("politicas_publicas", range(26, 31), 2) >>,
         conhecimentos_especificos |-> << Materia("especificos", range(31, 81), 2) >>,
         notas_minimas |-> [basicos |-> 16, especificos |-> 50]],
     medio_geral |->
        [conhecimentos_basicos |->
            << Materia("lingua_portuguesa", range(1, 15), 2),
               Materia("matematica_raciocinio", range(15, 21), 2),
               Materia("informatica", range(21, 27), 1),
               Materia("conhecimentos_transversais", range(27, 34), 1),
               Materia("politicas_publicas", range(34, 41), 1) >>,
         conhecimentos_especificos |-> << Materia("especificos", range(41, 101), 2) >>,
         notas_minimas |-> [basicos |-> 24, especificos |-> 48]],
     medio_ti |->
        [conhecimentos_basicos |->
            << Materia("lingua_portuguesa", range(1, 15), 2),
               Materia("matematica_raciocinio", range(15, 21), 2),
               Materia("gestao_projetos", range(21, 27), 1),
               Materia("conhecimentos_transversais", range(27, 34), 1),
               Materia("politicas_publicas", range(34, 41), 1) >>,
         conhecimentos_especificos |-> << Materia("especificos", range(41, 101), 2) >>,
         notas_minimas |-> [basicos |-> 24, especificos |-> 48]]]

\* str.lower() on the words of the names
Minusculas ==
    ("ANALISTA" :> "analista") @@ ("ASSISTENTE" :> "assistente")
    @@ ("ADMINISTRATIVO" :> "administrativo") @@ ("DE" :> "de") @@ ("DA" :> "da")
    @@ ("TECNOLOGIA" :> "tecnologia") @@ ("INFORMAÇÃO" :> "informação")

lower(nome) == [i \in DOMAIN nome |-> Minusculas[nome[i]]]

\* 'palavra' in nome_cargo, for a word no other word of the names contains
Contem(nome_cargo, palavra) == \E i \in DOMAIN nome_cargo : nome_cargo[i] = palavra

\* the structure chosen from the name of the cargo
TipoDaEstrutura(d) ==
    LET nome_cargo == lower(d.nome)
        ti == Contem(nome_cargo, "tecnologia") \/ Contem(nome_cargo, "informação")
    IN  IF Contem(nome_cargo, "analista")
        THEN IF ti THEN "superior_ti" ELSE "superior_geral"
        ELSE IF ti THEN "medio_ti" ELSE "medio_geral"

tipo_cargo(tipo) ==
    CASE tipo = "superior_ti" -> "Nível Superior - Analista de TI"
      [] tipo = "superior_geral" -> "Nível Superior - Analista"
      [] tipo = "medio_ti" -> "Nível Médio - Assistente de TI"
      [] tipo = "medio_geral" -> "Nível Médio - Assistente"

\* the local gabarito_oficial of calcular_nota_conab: the key of
\* list(provas.keys())[0]; None, of which only the truth value is read, is
\* the empty map
GabaritoDaNota(d) ==
    IF d.provas # <<>> THEN d.provas[1].gabarito ELSE EmptyMap

\* mutant: an annulled question is a hit only for those who answered it
Acerta_anulada_respondida(questao, respostas, gabarito) ==
    LET resposta_candidato ==
            IF questao \in DOMAIN respostas THEN respostas[questao] ELSE "Não respondida"
        resposta_oficial ==
            IF str(questao) \in DOMAIN gabarito THEN gabarito[str(questao)] ELSE ""
    IN  /\ resposta_candidato # "Não respondida"
        /\ resposta_oficial = "Anulada" \/ resposta_candidato = resposta_oficial

\* whether the body of the loop over config['questoes'] adds to acertos
Acerta(questao, respostas, gabarito) ==
    LET resposta_candidato ==
            IF questao \in DOMAIN respostas THEN respostas[questao] ELSE "Não respondida"
        resposta_oficial ==
            IF str(questao) \in DOMAIN gabarito THEN gabarito[str(questao)] ELSE ""
    IN  IF DOMAIN gabarito # {}
        THEN IF resposta_oficial = "Anulada" THEN TRUE
             ELSE /\ resposta_candidato # "Não respondida"
                  /\ resposta_candidato = resposta_oficial
        ELSE resposta_candidato # "Não respondida"

\* the entry of one subject in resultados; percentual as the fraction
ResultadoDaMateria(config_materia, respostas, gabarito) ==
    LET acertos == Cardinality({q \in config_materia.questoes : Acerta(q, respostas, gabarito)})
        total == Cardinality(config_materia.questoes)
    IN  [acertos |-> acertos,
         total_questoes |-> total,
         peso |-> config_materia.peso,
         pontos |-> acertos * config_materia.peso,
         percentual |-> IF total > 0 THEN <<acertos * 100, total>> ELSE <<0, 1>>]

\* resultados[parte]: subject -> entry
ResultadosDaParte(materias, respostas, gabarito) ==
    [nome \in {materias[i].materia : i \in DOMAIN materias} |->
        ResultadoDaMateria(CHOOSE c \in {materias[i] : i \in DOMAIN materias} : c.materia = nome,
                           respostas, gabarito)]

RECURSIVE Soma(_, _)
Soma(f, S) ==
    IF S = {} THEN 0
    ELSE LET x == CHOOSE y \in S : TRUE IN f[x] + Soma(f, S \ {x})

\* total_basicos, total_especificos
TotalDaParte(resultados_da_parte) ==
    Soma([nome \in DOMAIN resultados_da_parte |-> resultados_da_parte[nome].pontos],
         DOMAIN resultados_da_parte)

calcular_nota_conab(respostas, d) ==
    LET tipo == TipoDaEstrutura(d)
        estrutura == estruturas_prova[tipo]
        gabarito == GabaritoDaNota(d)
        basicos == ResultadosDaParte(estrutura.conhecimentos_basicos, respostas, gabarito)
        especificos == ResultadosDaParte(estrutura.conhecimentos_especificos, respostas, gabarito)
        total_basicos == TotalDaParte(basicos)
        total_especificos == TotalDaParte(especificos)
    IN  [tipo_cargo |-> tipo_cargo(tipo),
         conhecimentos_basicos |-> basicos,
         conhecimentos_especificos |-> especificos,
         totais |-> [conhecimentos_basicos |-> total_basicos,
                     conhecimentos_especificos |-> total_especificos,
                     total_geral |-> total_basicos + total_especificos],
         aprovacao |->
            [basicos_aprovado |-> total_basicos >= estrutura.notas_minimas.basicos,
             especificos_aprovado |-> total_especificos >= estrutura.notas_minimas.especificos,
             aprovado_geral |-> /\ total_basicos >= estrutura.notas_minimas.basicos
                                /\ total_especificos >= estrutura.notas_minimas.especificos,
             nota_minima_basicos |-> estrutura.notas_minimas.basicos,
             nota_minima_especificos |-> estrutura.notas_minimas.especificos]]

\* questoes_ordenadas = {q: marcacoes.get(q, 'Não respondida') for q in
\* range(1, total_questoes + 1)}
QuestoesOrdenadas(respostas, total) ==
    [q \in range(1, total + 1) |->
        IF q \in DOMAIN respostas THEN respostas[q] ELSE "Não respondida"]

\* resultado_conab = calcular_nota_conab(questoes_ordenadas,
\* cargo_selecionado, dados); gabarito_nota keeps the key the call read
CalcularNotaConab ==
    /\ pc = "nota"
    /\ questoes_ordenadas' = QuestoesOrdenadas(marcacoes, total_questoes)
    /\ resultado_conab' = calcular_nota_conab(questoes_ordenadas', dados)
    /\ gabarito_nota' = GabaritoDaNota(dados)
    /\ pc' = "analisado"
    /\ UNCHANGED <<total_questoes, circles, marcacoes, matches, contagem, numeracao,
                   detector, media, valido>>
    /\ UNCHANGED runVars
    /\ UNCHANGED <<dados, prova_selecionada, gabarito_oficial, comparacao>>
    /\ UNCHANGED armazenamentoVars

NextAnalise ==
    \/ SelecionarProva
    \/ MarcacoesDetectadas
    \/ CompararComGabarito
    \/ CalcularNotaConab

SpecAnalise == InitAnalise /\ [][NextAnalise]_vars

---------------------------------------------------------------------------
\* the questions of the key of each kind, counted without the loop
QuestoesDaChave == {q \in 1..MaxQuestao : str(q) \in DOMAIN gabarito_oficial}
Anuladas == {q \in QuestoesDaChave : gabarito_oficial[str(q)] = "Anulada"}
Respondidas == {q \in QuestoesDaChave : q \in DOMAIN marcacoes}

\* C23: the four counters of comparar_com_gabarito partition the questions
\* of the key: the annulled ones whatever the answer, of the others the
\* unanswered ones, the ones answered with the key's letter and the ones
\* answered with another letter; their sum is the number of questions of
\* the key.
C23_QuatroClasses ==
    pc \in {"nota", "analisado"} =>
        /\ comparacao.anuladas = Cardinality(Anuladas)
        /\ comparacao.nao_respondidas =
              Cardinality(QuestoesDaChave \ (Anuladas \cup Respondidas))
        /\ comparacao.acertos =
              Cardinality({q \in Respondidas \ Anuladas :
                              marcacoes[q] = gabarito_oficial[str(q)]})
        /\ comparacao.erros =
              Cardinality({q \in Respondidas \ Anuladas :
                              marcacoes[q] # gabarito_oficial[str(q)]})
        /\ comparacao.acertos + comparacao.erros + comparacao.nao_respondidas
              + comparacao.anuladas = Cardinality(DOMAIN gabarito_oficial)

\* a key of 80 questions with annulled questions that the candidate
\* answered, and questions of each of the four classes
C23_Witness ==
    /\ pc = "nota"
    /\ Cardinality(DOMAIN gabarito_oficial) = 80
    /\ Anuladas \cap Respondidas # {}
    /\ comparacao.anuladas > 0
    /\ comparacao.nao_respondidas > 0
    /\ comparacao.acertos > 0
    /\ comparacao.erros > 0

---------------------------------------------------------------------------
\* the subjects of the structure of the cargo, of both parts
MateriasDoCargo ==
    LET estrutura == estruturas_prova[TipoDaEstrutura(dados)]
    IN  {<<"conhecimentos_basicos", estrutura.conhecimentos_basicos[i]>> :
            i \in DOMAIN estrutura.conhecimentos_basicos}
        \cup {<<"conhecimentos_especificos", estrutura.conhecimentos_especificos[i]>> :
                i \in DOMAIN estrutura.conhecimentos_especificos}

\* the questions of a subject annulled in the key the score was computed with
AnuladasNaNota(questoes) ==
    {q \in questoes : str(q) \in DOMAIN gabarito_nota /\ gabarito_nota[str(q)] = "Anulada"}

\* the questions of a subject the candidate marked with the letter of that key
IguaisAChave(questoes) ==
    {q \in questoes : /\ q \in DOMAIN marcacoes
                      /\ str(q) \in DOMAIN gabarito_nota
                      /\ marcacoes[q] = gabarito_nota[str(q)]}

\* C24: with a key present, the hits of each subject in the result of
\* calcular_nota_conab are its annulled questions, answered or not, plus
\* its other questions answered with the letter of the key, and its points
\* are the hits times the weight of the subject.
C24_AnuladaContaParaTodos ==
    (pc = "analisado" /\ DOMAIN gabarito_nota # {}) =>
        \A pm \in MateriasDoCargo :
            LET entrada == resultado_conab[pm[1]][pm[2].materia]
            IN  /\ entrada.acertos =
                      Cardinality(AnuladasNaNota(pm[2].questoes)
                                    \cup IguaisAChave(pm[2].questoes))
                /\ entrada.pontos = entrada.acertos * pm[2].peso
                /\ entrada.peso = pm[2].peso

\* a result in which a subject has an annulled question the candidate left
\* unanswered, another one the candidate answered, a hit that is not
\* annulled and a miss
C24_Witness ==
    /\ pc = "analisado"
    /\ DOMAIN gabarito_nota # {}
    /\ \E pm \in MateriasDoCargo :
          /\ AnuladasNaNota(pm[2].questoes) \ DOMAIN marcacoes # {}
          /\ AnuladasNaNota(pm[2].questoes) \cap DOMAIN marcacoes # {}
          /\ IguaisAChave(pm[2].questoes) # {}
          /\ resultado_conab[pm[1]][pm[2].materia].acertos
                < resultado_conab[pm[1]][pm[2].materia].total_questoes
          /\ resultado_conab[pm[1]][pm[2].materia].pontos
                > resultado_conab[pm[1]][pm[2].materia].acertos

\* C25: in one analysis the score of calcular_nota_conab is computed with
\* the key comparar_com_gabarito used, the key of the prova chosen in the
\* page.
C25_MesmaChave ==
    pc = "analisado" => gabarito_nota = gabarito_oficial

---------------------------------------------------------------------------
(* The store of results, resultados_candidatos.json:                       *)
(* salvar_resultado_candidato, carregar_resultados_candidatos,             *)
(* gerar_classificacao_por_modalidade and the statistics of the page       *)
(* "Classificação Geral" of main.                                          *)

\* the number of calls of salvar_resultado_candidato in a behaviour
MaxSalvamentos == 1

Nomes == {"Ana", "Bia"}

\* the codes of two cargos and their entries in dados
Cargos == {"101", "201"}
DadosDoCargo(cargo) ==
    IF cargo = "101"
    THEN [nome |-> <<"ANALISTA", "ADMINISTRATIVO">>,
          provas |-> <<[prova |-> "1", gabarito |-> GabaritoDaProva(total_sem_cargo, 0, 7)]>>]
    ELSE [nome |-> <<"ASSISTENTE", "ADMINISTRATIVO">>,
          provas |-> <<[prova |-> "1", gabarito |-> GabaritoDaProva(MaxQuestao, 0, 7)]>>]

\* the options of the selectbox of the modality, and a string that is not
\* one of them, which the functions of the store accept as any other
ModalidadesDaPagina == {"Ampla Concorrência", "PCD", "PPP"}
Modalidades == ModalidadesDaPagina \cup {"Outra"}

\* resultado_conab and questoes_ordenadas of an analysis of a cargo: every
\* question answered, or every second one
EntradasDoCargo ==
    [cargo \in Cargos |->
        LET total == Cardinality(DOMAIN DadosDoCargo(cargo).provas[1].gabarito)
        IN  { [resultado_conab |->
                  calcular_nota_conab(QuestoesOrdenadas(respostas, total), DadosDoCargo(cargo)),
               questoes_ordenadas |-> QuestoesOrdenadas(respostas, total)] :
              respostas \in { [q \in {n \in 1..total : n % passo = 0} |->
                                 Alternativas[((q * q) % 5) + 1]] : passo \in {1, 2} } }]

\* registro_candidato; id stands for str(uuid.uuid4()) and data for the
\* reading of the clock
Registro(id, data, nome_candidato, cargo, modalidade, entrada) ==
    [id |-> id,
     nome |-> nome_candidato,
     cargo |-> cargo,
     modalidade |-> modalidade,
     data_analise |-> data,
     pontuacao |->
        [conhecimentos_basicos |-> entrada.resultado_conab.totais.conhecimentos_basicos,
         conhecimentos_especificos |-> entrada.resultado_conab.totais.conhecimentos_especificos,
         total |-> entrada.resultado_conab.totais.total_geral],
     aprovacao |->
        [aprovado_basicos |-> entrada.resultado_conab.aprovacao.basicos_aprovado,
         aprovado_especificos |-> entrada.resultado_conab.aprovacao.especificos_aprovado,
         aprovado_geral |-> entrada.resultado_conab.aprovacao.aprovado_geral],
     detalhes_materias |->
        [conhecimentos_basicos |-> entrada.resultado_conab.conhecimentos_basicos,
         conhecimentos_especificos |-> entrada.resultado_conab.conhecimentos_especificos],
     respostas |-> entrada.questoes_ordenadas]

\* json.load of the file, [] on FileNotFoundError
carregar_resultados_candidatos(arq) == IF arq.existe THEN arq.registros ELSE <<>>

\* candidato_existente: the first index with the same nome and cargo, 0
\* for None
candidato_existente(resultados, nome_candidato, cargo) ==
    LET iguais == {i \in DOMAIN resultados :
                      resultados[i].nome = nome_candidato /\ resultados[i].cargo = cargo}
    IN  IF iguais = {} THEN 0 ELSE CHOOSE i \in iguais : \A j \in iguais : i <= j

\* mutant: the record is appended whether the candidate exists or not
AtualizaResultados_sempre_acrescenta(resultados, registro) ==
    Append(resultados, registro)

\* resultados[candidato_existente] = registro_candidato, or
\* resultados.append(registro_candidato)
AtualizaResultados(resultados, registro) ==
    LET i == candidato_existente(resultados, registro.nome, registro.cargo)
    IN  IF i # 0 THEN [resultados EXCEPT ![i] = registro]
        ELSE Append(resultados, registro)

\* a store four calls of salvar_resultado_candidato leave: two candidates
\* of cargo "101" with the same total, one of cargo "201", and one saved
\* with a modality that is not an option of the page
QuatroRegistros ==
    LET e1 == CHOOSE x \in EntradasDoCargo["101"] :
                  \A y \in EntradasDoCargo["101"] :
                      x.resultado_conab.totais.total_geral <= y.resultado_conab.totais.total_geral
        e2 == CHOOSE x \in EntradasDoCargo["201"] :
                  \A y \in EntradasDoCargo["201"] :
                      x.resultado_conab.totais.total_geral >= y.resultado_conab.totais.total_geral
        r1 == Registro("a", 0, "Ana", "101", "Ampla Concorrência", e1)
        r2 == Registro("b", 0, "Bia", "101", "Ampla Concorrência", e1)
        r3 == Registro("c", 0, "Ana", "201", "Ampla Concorrência", e2)
        r4 == Registro("d", 0, "Bia", "201", "Outra", e2)
    IN  AtualizaResultados(AtualizaResultados(AtualizaResultados(
            AtualizaResultados(<<>>, r1), r2), r3), r4)

\* the file before the first call: absent, an empty list, or four records
ArquivosIniciais ==
    { SemArquivo,
      [existe |-> TRUE, registros |-> <<>>],
      [existe |-> TRUE, registros |-> QuatroRegistros] }

InitArmazenamento ==
    /\ pc = "armazenamento"
    /\ total_questoes = total_sem_cargo
    /\ circles = <<>>
    /\ marcacoes = EmptyMap
    /\ matches = <<>>
    /\ contagem = semGrade
    /\ numeracao = semGrade
    /\ SemCorrida
    /\ detector = DetectorConstruido
    /\ SemValidacao
    /\ SemAnalise
    /\ arquivo \in ArquivosIniciais
    /\ salvamentos = 0
    /\ classificacoes = <<>>
    /\ estatisticas = ""
    /\ sessoes = <<>>

\* one call of salvar_resultado_candidato, from the read of the file to
\* json.dump
Salvar ==
    /\ pc = "armazenamento"
    /\ salvamentos < MaxSalvamentos
    /\ \E nome_candidato \in Nomes, cargo \in Cargos, modalidade \in Modalidades :
          \E entrada \in EntradasDoCargo[cargo] :
              arquivo' =
                  [existe |-> TRUE,
                   registros |->
                      AtualizaResultados(
                          carregar_resultados_candidatos(arquivo),
                          Registro(ToString(salvamentos + 1), salvamentos + 1,
                                   nome_candidato, cargo, modalidade, entrada))]
    /\ salvamentos' = salvamentos + 1
    /\ UNCHANGED <<pc, total_questoes, circles, marcacoes, matches, contagem, numeracao,
                   detector, media, valido>>
    /\ UNCHANGED runVars
    /\ UNCHANGED analiseVars
    /\ UNCHANGED <<classificacoes, estatisticas, sessoes>>

\* mutant: a record goes before the records of the same total
Insere_antes_dos_iguais(ordenados, registro) ==
    LET k == Cardinality({i \in DOMAIN ordenados :
                             ordenados[i].pontuacao.total > registro.pontuacao.total})
    IN  SubSeq(ordenados, 1, k) \o <<registro>> \o SubSeq(ordenados, k + 1, Len(ordenados))

\* the place of a record among the records sorted before it: list.sort is
\* stable and reverse=True keeps the order of the records of the same key
Insere(ordenados, registro) ==
    LET k == Cardinality({i \in DOMAIN ordenados :
                             ordenados[i].pontuacao.total >= registro.pontuacao.total})
    IN  SubSeq(ordenados, 1, k) \o <<registro>> \o SubSeq(ordenados, k + 1, Len(ordenados))

\* sort(key=lambda x: x['pontuacao']['total'], reverse=True)
RECURSIVE OrdenaPorTotal(_)
OrdenaPorTotal(lista) ==
    IF lista = <<>> THEN <<>>
    ELSE Insere(OrdenaPorTotal(SubSeq(lista, 1, Len(lista) - 1)), lista[Len(lista)])

\* candidato['posicao'] = i + 1
ComPosicao(lista) == [i \in DOMAIN lista |-> [posicao |-> i] @@ lista[i]]

gerar_classificacao_por_modalidade(arq, cargo_filtro) ==
    LET todos == carregar_resultados_candidatos(arq)
        DoCargo(r) == r.cargo = cargo_filtro
        resultados == IF cargo_filtro # PyNone THEN SelectSeq(todos, DoCargo) ELSE todos
    IN  [modalidade \in ModalidadesDaPagina |->
            LET DaModalidade(r) == r.modalidade = modalidade
            IN  ComPosicao(OrdenaPorTotal(SelectSeq(resultados, DaModalidade)))]

\* classificacoes = gerar_classificacao_por_modalidade(cargo_filtro); the
\* variable keeps the argument of the call with the result
GerarClassificacao ==
    /\ pc = "armazenamento"
    /\ \E cargo_filtro \in {PyNone} \cup Cargos :
          classificacoes' =
              [cargo_filtro |-> cargo_filtro,
               classificacoes |-> gerar_classificacao_por_modalidade(arquivo, cargo_filtro)]
    /\ pc' = "classificado"
    /\ UNCHANGED <<total_questoes, circles, marcacoes, matches, contagem, numeracao,
                   detector, media, valido>>
    /\ UNCHANGED runVars
    /\ UNCHANGED analiseVars
    /\ UNCHANGED <<arquivo, salvamentos, estatisticas, sessoes>>

\* r['pontuacao']['aprovacao']['aprovado_geral'] raises KeyError when a
\* key of the path is missing
TemAprovadoGeral(r) ==
    /\ "pontuacao" \in DOMAIN r
    /\ "aprovacao" \in DOMAIN r.pontuacao
    /\ "aprovado_geral" \in DOMAIN r.pontuacao.aprovacao

\* the statistics of the page "Classificação Geral" up to the count of the
\* approved: "vazio" when no result is stored, "KeyError" when one of the
\* lookups of aprovado_geral raises, "ok" otherwise
EstatisticasDaPagina(arq, cargo_filtro, modalidade_filtro, status_filtro) ==
    LET resultados_todos == carregar_resultados_candidatos(arq)
        DoCargo(r) == r.cargo = cargo_filtro
        DaModalidade(r) == r.modalidade = modalidade_filtro
        por_cargo == IF cargo_filtro # "Todos os Cargos"
                     THEN SelectSeq(resultados_todos, DoCargo) ELSE resultados_todos
        por_modalidade == IF modalidade_filtro # "Todas"
                          THEN SelectSeq(por_cargo, DaModalidade) ELSE por_cargo
        Levantam(lista) == \E i \in DOMAIN lista : ~TemAprovadoGeral(lista[i])
        Aprovado(r) == r.pontuacao.aprovacao.aprovado_geral
        Reprovado(r) == ~r.pontuacao.aprovacao.aprovado_geral
    IN  IF resultados_todos = <<>> THEN "vazio"
        ELSE IF status_filtro # "Todos" /\ Levantam(por_modalidade) THEN "KeyError"
        ELSE LET resultados_filtrados ==
                     IF status_filtro = "Apenas Aprovados" THEN SelectSeq(por_modalidade, Aprovado)
                     ELSE IF status_filtro = "Apenas Reprovados"
                          THEN SelectSeq(por_modalidade, Reprovado)
                     ELSE por_modalidade
             IN  IF Levantam(resultados_filtrados) THEN "KeyError" ELSE "ok"

\* the page "Classificação Geral" with the filters of its three selectboxes
EstatisticasGerais ==
    /\ pc = "armazenamento"
    /\ \E cargo_filtro \in {"Todos os Cargos"}
                             \cup {arquivo.registros[i].cargo : i \in DOMAIN arquivo.registros},
          modalidade_filtro \in {"Todas"} \cup ModalidadesDaPagina,
          status_filtro \in {"Todos", "Apenas Aprovados", "Apenas Reprovados"} :
          estatisticas' =
              EstatisticasDaPagina(arquivo, cargo_filtro, modalidade_filtro, status_filtro)
    /\ pc' = "estatisticas"
    /\ UNCHANGED <<total_questoes, circles, marcacoes, matches, contagem, numeracao,
                   detector, media, valido>>
    /\ UNCHANGED runVars
    /\ UNCHANGED analiseVars
    /\ UNCHANGED <<arquivo, salvamentos, classificacoes, sessoes>>

NextArmazenamento ==
    \/ Salvar
    \/ GerarClassificacao
    \/ EstatisticasGerais

SpecArmazenamento == InitArmazenamento /\ [][NextArmazenamento]_vars

---------------------------------------------------------------------------
\* no two records of the list have the same nome and cargo
SemParRepetido(resultados) ==
    \A i, j \in DOMAIN resultados :
        (resultados[i].nome = resultados[j].nome /\ resultados[i].cargo = resultados[j].cargo)
            => i = j

\* the step of a save: a record of the same pair replaced where it was, or
\* a record of a new pair added at the end, the others as they were
SubstituiOuAcrescenta ==
    salvamentos' # salvamentos =>
        LET antes == carregar_resultados_candidatos(arquivo)
            depois == arquivo'.registros
        IN  /\ arquivo'.existe
            /\ \/ /\ Len(depois) = Len(antes)
                  /\ \E i \in DOMAIN antes :
                        /\ depois[i].nome = antes[i].nome
                        /\ depois[i].cargo = antes[i].cargo
                        /\ depois[i].id # antes[i].id
                        /\ \A j \in DOMAIN antes : j # i => depois[j] = antes[j]
               \/ /\ Len(depois) = Len(antes) + 1
                  /\ SubSeq(depois, 1, Len(antes)) = antes
                  /\ \A j \in DOMAIN antes :
                        ~(/\ antes[j].nome = depois[Len(depois)].nome
                          /\ antes[j].cargo = depois[Len(depois)].cargo)

SemPosicao(candidato) == [campo \in (DOMAIN candidato) \ {"posicao"} |-> candidato[campo]]

\* the indexes of the stored records a ranking of the modality has to hold
IndicesDaModalidade(modalidade) ==
    LET resultados == carregar_resultados_candidatos(arquivo)
    IN  {i \in DOMAIN resultados :
            /\ resultados[i].modalidade = modalidade
            /\ \/ classificacoes.cargo_filtro = PyNone
               \/ resultados[i].cargo = classificacoes.cargo_filtro}

\* the index in the store of the record at a place of a ranking
IndiceNoArquivo(candidato) ==
    CHOOSE i \in DOMAIN carregar_resultados_candidatos(arquivo) :
        carregar_resultados_candidatos(arquivo)[i].id = candidato.id

\* C28: gerar_classificacao_por_modalidade returns a ranking for each of
\* the three modalities and no other; the ranking of a modality holds the
\* stored records of that modality (of the cargo of the filter), each once,
\* by non-increasing total, at positions 1..n; records of the same total
\* are in the order of the store; a record of another modality is in no
\* ranking.
C28_ClassificacaoPorModalidade ==
    pc = "classificado" =>
        LET resultados == carregar_resultados_candidatos(arquivo)
            rankings == classificacoes.classificacoes
        IN  /\ DOMAIN rankings = {"Ampla Concorrência", "PCD", "PPP"}
            /\ \A modalidade \in DOMAIN rankings :
                  LET ranking == rankings[modalidade]
                      indices == IndicesDaModalidade(modalidade)
                  IN  /\ Len(ranking) = Cardinality(indices)
                      /\ \A k \in DOMAIN ranking :
                            /\ ranking[k].posicao = k
                            /\ \E i \in indices : SemPosicao(ranking[k]) = resultados[i]
                      /\ \A i \in indices :
                            \E k \in DOMAIN ranking : SemPosicao(ranking[k]) = resultados[i]
                      /\ \A k, l \in DOMAIN ranking :
                            k < l =>
                                /\ ranking[k].pontuacao.total >= ranking[l].pontuacao.total
                                /\ ranking[k].pontuacao.total = ranking[l].pontuacao.total
                                      => IndiceNoArquivo(ranking[k]) < IndiceNoArquivo(ranking[l])
            /\ \A i \in DOMAIN resultados :
                  resultados[i].modalidade \notin DOMAIN rankings =>
                      \A modalidade \in DOMAIN rankings :
                          \A k \in DOMAIN rankings[modalidade] :
                              rankings[modalidade][k].id # resultados[i].id

\* a ranking without filter of three records, two of them of the same
\* total, that is not in the order of the store, from a store with a
\* record of a modality that has no ranking
C28_Witness ==
    /\ pc = "classificado"
    /\ classificacoes.cargo_filtro = PyNone
    /\ \E modalidade \in DOMAIN classificacoes.classificacoes :
          LET ranking == classificacoes.classificacoes[modalidade]
          IN  /\ Len(ranking) = 3
              /\ \E k \in 1..2 : ranking[k].pontuacao.total = ranking[k + 1].pontuacao.total
              /\ ranking[1].pontuacao.total > ranking[3].pontuacao.total
              /\ IndiceNoArquivo(ranking[1]) > IndiceNoArquivo(ranking[2])
    /\ \E i \in DOMAIN arquivo.registros : arquivo.registros[i].modalidade = "Outra"

\* C29: every record salvar_resultado_candidato wrote has aprovado_geral
\* under pontuacao -> aprovacao, and the statistics of the general ranking
\* process the store without a missing-key failure.
C29_SemChaveAusente ==
    salvamentos > 0 =>
    /\ \A i \in DOMAIN arquivo.registros : TemAprovadoGeral(arquivo.registros[i])
    /\ estatisticas # "KeyError"

---------------------------------------------------------------------------
(* Two sessions that call salvar_resultado_candidato at the same time.     *)
(* Nothing in the function locks the file: between the json.load of one    *)
(* call and its json.dump the other call may read or write.                *)

Sessoes == {1, 2}

\* the candidate of each session: two different names
NomeDaSessao == <<"Ana", "Bia">>

\* str(uuid.uuid4()) of the record of each session
IdDaSessao == <<"s1", "s2">>

InitConcorrente ==
    /\ pc = "concorrente"
    /\ total_questoes = total_sem_cargo
    /\ circles = <<>>
    /\ marcacoes = EmptyMap
    /\ matches = <<>>
    /\ contagem = semGrade
    /\ numeracao = semGrade
    /\ SemCorrida
    /\ detector = DetectorConstruido
    /\ SemValidacao
    /\ SemAnalise
    /\ arquivo \in ArquivosIniciais
    /\ salvamentos = 0
    /\ classificacoes = <<>>
    /\ estatisticas = ""
    /\ \E cargos \in [Sessoes -> Cargos], modalidades \in [Sessoes -> ModalidadesDaPagina] :
          sessoes = [s \in Sessoes |->
                        [pc |-> "inicio",
                         resultados |-> <<>>,
                         nome_candidato |-> NomeDaSessao[s],
                         cargo |-> cargos[s],
                         modalidade |-> modalidades[s],
                         entrada |-> CHOOSE x \in EntradasDoCargo[cargos[s]] :
                                        \A y \in EntradasDoCargo[cargos[s]] :
                                            x.resultado_conab.totais.total_geral
                                                >= y.resultado_conab.totais.total_geral]]

\* the try block of a session: resultados = json.load(f), or []
LerArquivo ==
    /\ pc = "concorrente"
    /\ \E s \in Sessoes :
          /\ sessoes[s].pc = "inicio"
          /\ sessoes' = [sessoes EXCEPT ![s].pc = "lido",
                                        ![s].resultados = carregar_resultados_candidatos(arquivo)]
    /\ UNCHANGED <<pc, total_questoes, circles, marcacoes, matches, contagem, numeracao,
                   detector, media, valido>>
    /\ UNCHANGED runVars
    /\ UNCHANGED analiseVars
    /\ UNCHANGED <<arquivo, salvamentos, classificacoes, estatisticas>>

\* the rest of the call of a session: the record, the update of the list
\* the session read, and json.dump of that list
GravarArquivo ==
    /\ pc = "concorrente"
    /\ \E s \in Sessoes :
          /\ sessoes[s].pc = "lido"
          /\ arquivo' =
                [existe |-> TRUE,
                 registros |->
                    AtualizaResultados(
                        sessoes[s].resultados,
                        Registro(IdDaSessao[s], salvamentos + 1, sessoes[s].nome_candidato,
                                 sessoes[s].cargo, sessoes[s].modalidade, sessoes[s].entrada))]
          /\ sessoes' = [sessoes EXCEPT ![s].pc = "retornou"]
    /\ salvamentos' = salvamentos + 1
    /\ UNCHANGED <<pc, total_questoes, circles, marcacoes, matches, contagem, numeracao,
                   detector, media, valido>>
    /\ UNCHANGED runVars
    /\ UNCHANGED analiseVars
    /\ UNCHANGED <<classificacoes, estatisticas>>

NextConcorrente ==
    \/ LerArquivo
    \/ GravarArquivo

SpecConcorrente == InitConcorrente /\ [][NextConcorrente]_vars

---------------------------------------------------------------------------
\* C27: after two sessions that saved two different candidates at the same
\* time have both returned, the file holds the record of each of them.
C27_NenhumSalvamentoPerdido ==
    (pc = "concorrente" /\ \A s \in Sessoes : sessoes[s].pc = "retornou") =>
        \A s \in Sessoes :
            \E i \in DOMAIN arquivo.registros : arquivo.registros[i].id = IdDaSessao[s]

====
